---- MODULE Spec2Model ----
(***************************************************************************)
(* Model of kfwproxy's cache-coordinated proxy pipeline.                   *)
(*                                                                         *)
(*   memoryCache      src/cache.go:107-268  (size bounded, swept by Clean) *)
(*   RistrettoCache   src/cache.go:18-59    (wrapper over ristretto.Cache) *)
(*   ProxyHandler     src/unnamed/part_007  (current handler)              *)
(*   proxyHandler     src/proxy.go          (earlier handler)              *)
(*                                                                         *)
(* Time is a natural number of seconds.  time.Time{} is ZeroTime.          *)
(***************************************************************************)
EXTENDS Integers, Sequences, FiniteSets, Bags, TLC

\* ------------------------------------------------------------------ bounds
MaxTime == 12
MaxCalls == 4
\* calls made on both caches side by side
MaxBothCalls == 3
\* capacity of ristretto's setBuf channel in the model
MaxSetBuf == 2
\* calls made by the concurrent goroutines
MaxConcCalls == 4
\* requests handled by a proxy handler
MaxReqs == 3
\* requests handled by the ProxyHandler
MaxServes == 2
\* inbound requests whose cache id and upstream request are built
MaxInbound == 2
\* sub-items (x parameters) of a batch request
MaxItems == 3
\* sub-items of the batch requests served side by side
MaxNestItems == 2
\* batch handler invocations one inside the other
MaxFrames == 3
\* cache calls made while handleStats runs
MaxStatCalls == 3
\* InterceptUpgradeCheck calls made by the goroutines of the Hook
MaxLatestCalls == 3
\* length of the strings handed to MustExtractVersion
MaxStrLen == 5
\* largest major, minor or build number of the versions compared
MaxPart == 2

\* ------------------------------------------------------- input enumerations
\* the default of ProxyHandler.CacheTTL its comment documents (1h), in seconds
OneHour == 3600
StartTime == 10
ZeroTime == 0
Keys == {"A", "B", "C"}
\* (data, extra) pairs handed to Put: 1, 2 and 4 bytes
Payloads ==
    {<<(<<7>>), "text/plain">>, <<(<<8, 8>>), "application/json">>,
     <<(<<9, 9, 9, 9>>), "text/plain">>}
\* ttl arguments of the memoryCache runs and of the runs of both caches
MemTTLs == {0, 2}
TTLs == {-1, 0, 1}
BothKeys == {"A", "B"}
\* the goroutines of the concurrent runs, and the inputs of their calls
Procs == {"g1", "g2"}
ConcKeys == {"A", "B"}
ConcPayloads == {p \in Payloads : Len(p[1]) = 2}
ConcTTLs == {1}
\* the requests served side by side, their methods and cache ids, and what
\* upstream may answer
Reqs == {"r1", "r2"}
Methods == {"GET", "HEAD", "OPTIONS", "POST"}
ReqKeys == {"A", "B"}
UpstreamStatuses == {200, 404}
UpstreamPayloads == {p \in Payloads : Len(p[1]) # 1}
\* the positive ttl of a route
RouteTTL == 2
\* ProxyHandler.CacheTTL: left unset, or one second
CacheTTLs == {0, 1}
\* ProxyHandler.Cache: nil, or one of the two implementations
CacheImpls == {"none", "memory", "ristretto"}
\* the payloads of those runs: 1 and 2 bytes
BothPayloads == {p \in Payloads : Len(p[1]) <= 2}
\* memoryCache.Limit: unbounded, or three bytes
Limits == {0, 3}
\* ristretto.Config.MaxCost of the RistrettoCache
MaxCost == 3
\* the inbound requests of the UpgradeCheck route: strings are sequences of
\* characters, a header is the list of its values (empty when absent)
PreviewHeader == "X-Kobo-Accept-Preview"
HeaderNames == {PreviewHeader, "Cookie", "User-Agent"}
InboundMethods == {"GET", "HEAD"}
InboundPaths == {<<"/", "u">>, <<"/", "u", "1">>}
InboundQueries == {<<>>, <<"q">>}
PreviewValues == {<<>>, <<(<<"1">>)>>, <<(<<"1">>), (<<"2">>)>>}
CookieValues == {<<>>, <<(<<"c">>)>>}
AgentValues == {<<(<<"b">>)>>}
InboundRequests ==
    {[method |-> m, path |-> p, query |-> q,
      hdr |-> [k \in HeaderNames |->
                 CASE k = PreviewHeader -> pv
                   [] k = "Cookie" -> ck
                   [] k = "User-Agent" -> ua]] :
       m \in InboundMethods, p \in InboundPaths, q \in InboundQueries,
       pv \in PreviewValues, ck \in CookieValues, ua \in AgentValues}
\* ProxyHandler.PassHeaders and ProxyHandler.UserAgent as main sets them
PassHeaders == {PreviewHeader}
UserAgent == <<"k">>
\* the batch handler: cacheTime in seconds, the most sub-items it takes, and
\* what a sub-item may come to: a sub-path http.NewRequestWithContext
\* rejects, or the status and the Cache-Control directives the dispatched
\* handler recorded
DefaultTTL == 3
BatchLimit == 20
NoCacheDirective == [name |-> "no-cache", value |-> 0]
MaxAgeDirective(n) == [name |-> "max-age", value |-> n]
\* route is the handler the router hands the sub-request to
Malformed ==
    [malformed |-> TRUE, route |-> "", code |-> 0, cc |-> <<>>, body |-> ""]
Recorded(code, cc, body) ==
    [malformed |-> FALSE, route |-> "proxy", code |-> code, cc |-> cc,
     body |-> body]
SubItems ==
    {Malformed, Recorded(404, <<NoCacheDirective>>, "not found"),
     Recorded(200, <<>>, "plain")}
    \cup {Recorded(200, <<MaxAgeDirective(n)>>, "json") : n \in {0, 2, 5}}
HFlags == {"", "1", "2"}
\* the batch requests served side by side, and their sub-items: one the
\* router hands to the batch handler again, and one it hands to a proxy route
BatchReqs == {"b1", "b2"}
Nested ==
    [malformed |-> FALSE, route |-> "batch", code |-> 0, cc |-> <<>>, body |-> ""]
NestItems == {Nested, Recorded(200, <<MaxAgeDirective(2)>>, "json")}

VARIABLES
    now,        \* time.Now()
    calls,      \* number of cache calls made so far (bounded by MaxCalls)
    Limit,      \* memoryCache.Limit
    size,       \* memoryCache.size
    entries,    \* memoryCache.entries, a map id -> memoryCacheEntry
    entriesNil, \* memoryCache.entries == nil
    init,       \* memoryCache.init
    hits,       \* memoryCache.hits
    puts,       \* memoryCache.puts
    misses,     \* memoryCache.misses
    ret,        \* the last memoryCache call: its arguments and what it returned
    rstore,     \* ristretto.Cache's store: key -> item (value, cost, expiration)
    rsetBuf,    \* ristretto.Cache.setBuf: items sent to the policy, not yet processed
    rret,       \* the last RistrettoCache call: its arguments and what it returned
    pc,         \* per goroutine: where it stands in its memoryCache.Get call
    loc,        \* per goroutine: the locals of its memoryCache.Get call
    readers,    \* the goroutines holding memoryCache.mu.RLock
    gets,       \* how many Get calls have returned found / not found
    cacheImpl,  \* the handler's cache: "memory", "ristretto" or "none" (nil)
    CacheTTL,   \* the handler's ttl for Put (ProxyHandler.CacheTTL, cacheTime)
    req,        \* per request in flight: where its handler stands
    resp,       \* per request: the response written to the client
    hooks,      \* the goroutines started by Hook that have not run yet, by body
    crashed,    \* the process has died of a panic outside a handler
    inbound,    \* the inbound requests whose cache id and upstream request are built
    built,      \* per inbound request: its cache id and its upstream request
    batchReq,   \* the batch request being answered: its sub-items and h flag
    batchResp,  \* the batch response written
    stack,      \* per batch request: the batch handler invocations in progress
    answer,     \* per batch request: its sub-items and the response its client got
    stat,       \* the handleStats call: where it stands and the values it has read
    seen,       \* the states the cache has been in since the handleStats call began
    latest,     \* LatestTracker.v and LatestTracker.t, the stored values
    lgo,        \* per goroutine: where its InterceptUpgradeCheck stands, its locals
    lseen,      \* the versions and release-notes ids intercepted so far
    verIn,      \* the arguments of the last call of a Version function
    verOut      \* what that call returned

memVars == <<Limit, size, entries, entriesNil, init, hits, puts, misses, ret>>
ristVars == <<rstore, rsetBuf, rret>>
concVars == <<pc, loc, readers, gets>>
proxyVars == <<cacheImpl, CacheTTL, req, resp>>
hookVars == <<hooks, crashed>>
nestVars == <<stack, answer>>
statVars == <<stat, seen>>
latestVars == <<latest, lgo, lseen>>
versionVars == <<verIn, verOut>>
sideVars == <<statVars, latestVars, versionVars>>
auxVars == <<inbound, built, batchReq, batchResp, nestVars, sideVars>>
vars == <<now, calls, memVars, ristVars, concVars, proxyVars, hookVars, auxVars>>

\* ------------------------------------------------------------- map helpers
EmptyMap == [x \in {} |-> x]
MapPut(m, k, v) == [x \in (DOMAIN m) \cup {k} |-> IF x = k THEN v ELSE m[x]]
MapDel(m, ks) == [x \in (DOMAIN m) \ ks |-> m[x]]

\* a sum that takes every entry for two bytes
SumLen_TwoEach(m, S) == 2 * Cardinality(S)

RECURSIVE SumLen(_, _)
\* sum over ids in S of len(m[id].buf)
SumLen(m, S) ==
    IF S = {} THEN 0
    ELSE LET k == CHOOSE x \in S : TRUE
         IN Len(m[k].buf) + SumLen(m, S \ {k})

\* the value of a return record's unused fields
NoRet ==
    [op |-> "none", id |-> "", buf |-> <<>>, extra |-> "", ttl |-> 0,
     exp |-> ZeroTime, ct |-> ZeroTime, ok |-> FALSE,
     expired |-> EmptyMap, evicted |-> EmptyMap]

\* ------------------------------------------------------------- memoryCache
memoryCacheEntry(ct, exp, buf, extra) ==
    [ct |-> ct, exp |-> exp, buf |-> buf, extra |-> extra]

\* ensureInit: allocate the map and stamp init on first use
ensureInit ==
    /\ entriesNil' = FALSE
    /\ init' = IF entriesNil THEN now ELSE init

\* a comparison that finds no time later than another
After_Never(t, u) == FALSE

\* time.Time.After / Before
After(t, u) == t > u
Before(t, u) == t < u

\* sort.Sort(customSort{...}) over (ids, times): any ordering of the ids in
\* which no id comes before one with a strictly earlier ct (ties arbitrary).
IsSortedByCt_Newest(m, ids) ==
    \A i, j \in 1..Len(ids) : i < j => ~Before(m[ids[i]].ct, m[ids[j]].ct)

IsSortedByCt(m, ids) ==
    \A i, j \in 1..Len(ids) : i < j => ~Before(m[ids[j]].ct, m[ids[i]].ct)

Orderings(S) ==
    {s \in [1..Cardinality(S) -> S] : \A x \in S : \E i \in DOMAIN s : s[i] = x}

customSort(m) == {ids \in Orderings(DOMAIN m) : IsSortedByCt(m, ids)}

\* the loop leaving after its first removal whatever the size
EvictLoop_BreakAlways(m, ids, sz, i) == IF Len(ids) = 0 THEN 0 ELSE 1

RECURSIVE EvictLoop(_, _, _, _)
\* for _, id := range ids { size -= len; delete; if size < Limit { break } }
\* returns the number of ids removed from the front of ids
EvictLoop(m, ids, sz, i) ==
    IF i > Len(ids) THEN Len(ids)
    ELSE LET sz2 == sz - Len(m[ids[i]].buf)
         IN IF sz2 < Limit THEN i ELSE EvictLoop(m, ids, sz2, i + 1)

Front(ids, n) == {ids[i] : i \in 1..n}

\* the entries of m under the ids in S
SubMap(m, S) == [x \in S |-> m[x]]

memoryCache_Clean ==
    /\ ensureInit
    /\ LET expired == {id \in DOMAIN entries : After(now, entries[id].exp)}
           size1 == size - SumLen(entries, expired)
           entries1 == MapDel(entries, expired)
       IN IF Limit > 0 /\ size1 > Limit
          THEN \E ids \in customSort(entries1) :
                 LET n == EvictLoop(entries1, ids, size1, 1)
                     evicted == Front(ids, n)
                 IN /\ entries' = MapDel(entries1, evicted)
                    /\ size' = size1 - SumLen(entries1, evicted)
                    /\ ret' = [NoRet EXCEPT !.op = "Clean",
                                  !.expired = SubMap(entries, expired),
                                  !.evicted = SubMap(entries1, evicted)]
          ELSE /\ entries' = entries1
               /\ size' = size1
               /\ ret' = [NoRet EXCEPT !.op = "Clean",
                                       !.expired = SubMap(entries, expired)]
    /\ UNCHANGED <<Limit, hits, puts, misses>>

\* Put counting the call before it looks at the limit
memoryCache_Put_CountFirst(id, buf, extra, exp) ==
    /\ ensureInit
    /\ puts' = puts + 1
    /\ IF Limit > 0 /\ Len(buf) > Limit
       THEN /\ ret' = [NoRet EXCEPT !.op = "Put", !.id = id, !.buf = buf,
                                    !.extra = extra, !.ttl = exp,
                                    !.exp = ZeroTime, !.ok = FALSE]
            /\ UNCHANGED <<entries, size>>
       ELSE /\ entries' = MapPut(entries, id,
                                 memoryCacheEntry(now, now + exp, buf, extra))
            /\ size' = size + Len(buf)
            /\ ret' = [NoRet EXCEPT !.op = "Put", !.id = id, !.buf = buf,
                                    !.extra = extra, !.ttl = exp,
                                    !.exp = now + exp, !.ct = now, !.ok = TRUE]
    /\ UNCHANGED <<Limit, hits, misses>>

memoryCache_Put(id, buf, extra, exp) ==
    /\ ensureInit
    /\ IF Limit > 0 /\ Len(buf) > Limit
       THEN /\ ret' = [NoRet EXCEPT !.op = "Put", !.id = id, !.buf = buf,
                                    !.extra = extra, !.ttl = exp,
                                    !.exp = ZeroTime, !.ok = FALSE]
            /\ UNCHANGED <<entries, size, puts>>
       ELSE /\ puts' = puts + 1
            /\ entries' = MapPut(entries, id,
                                 memoryCacheEntry(now, now + exp, buf, extra))
            /\ size' = size + Len(buf)
            /\ ret' = [NoRet EXCEPT !.op = "Put", !.id = id, !.buf = buf,
                                    !.extra = extra, !.ttl = exp,
                                    !.exp = now + exp, !.ct = now, !.ok = TRUE]
    /\ UNCHANGED <<Limit, hits, misses>>

\* Get handing back the entry's two times in the other order
memoryCache_Get_SwappedTimes(id) ==
    /\ ensureInit
    /\ IF id \notin DOMAIN entries \/ After(now, entries[id].exp)
       THEN /\ misses' = misses + 1
            /\ hits' = hits
            /\ ret' = [NoRet EXCEPT !.op = "Get", !.id = id]
       ELSE /\ hits' = hits + 1
            /\ misses' = misses
            /\ ret' = [NoRet EXCEPT !.op = "Get", !.id = id,
                                    !.buf = entries[id].buf,
                                    !.extra = entries[id].extra,
                                    !.exp = entries[id].ct,
                                    !.ct = entries[id].exp, !.ok = TRUE]
    /\ UNCHANGED <<Limit, size, entries, puts>>

memoryCache_Get(id) ==
    /\ ensureInit
    /\ IF id \notin DOMAIN entries \/ After(now, entries[id].exp)
       THEN /\ misses' = misses + 1
            /\ hits' = hits
            /\ ret' = [NoRet EXCEPT !.op = "Get", !.id = id]
       ELSE /\ hits' = hits + 1
            /\ misses' = misses
            /\ ret' = [NoRet EXCEPT !.op = "Get", !.id = id,
                                    !.buf = entries[id].buf,
                                    !.extra = entries[id].extra,
                                    !.exp = entries[id].exp,
                                    !.ct = entries[id].ct, !.ok = TRUE]
    /\ UNCHANGED <<Limit, size, entries, puts>>

\* ---------------------------------------------------------- RistrettoCache
\* The wrapper is src/cache.go:18-59.  ristretto.Cache itself is the
\* dependency github.com/dgraph-io/ristretto v0.0.3; it is modelled by what
\* SetWithTTL, Get and its two background loops do to the store:
\*   SetWithTTL  ttl < 0 is a no-op returning false; ttl = 0 stores without
\*               expiration; an item whose key is in the store replaces the
\*               stored value at once; the item is then sent to setBuf, and
\*               is dropped (false) when setBuf is full
\*   processItems  takes items off setBuf and admits new ones by cost
\*   cleanup     removes the items whose expiration has passed
\*   Get         returns the stored value unless its expiration has passed
ristrettoEnt(ct, exp, data, extra) ==
    [ct |-> ct, exp |-> exp, data |-> data, extra |-> extra]

RECURSIVE SumCost(_, _)
SumCost(m, S) ==
    IF S = {} THEN 0
    ELSE LET k == CHOOSE x \in S : TRUE
         IN m[k].cost + SumCost(m, S \ {k})

\* the expiration SetWithTTL gives the item: none for ttl = 0
ristretto_expiration(ttl) == IF ttl = 0 THEN ZeroTime ELSE now + ttl

\* SetWithTTL's result
ristretto_SetWithTTL_ok(ttl) == ttl >= 0 /\ Len(rsetBuf) < MaxSetBuf

\* SetWithTTL's effect on the store and on setBuf
ristretto_SetWithTTL(key, value, cost, ttl) ==
    LET item == [key |-> key, value |-> value, cost |-> cost,
                 expiration |-> ristretto_expiration(ttl)]
        has == key \in DOMAIN rstore
    IN IF ttl < 0
       THEN UNCHANGED <<rstore, rsetBuf>>
       ELSE /\ rstore' = IF has
                         THEN MapPut(rstore, key,
                                     [value |-> value, cost |-> cost,
                                      expiration |-> item.expiration])
                         ELSE rstore
            /\ rsetBuf' = IF Len(rsetBuf) < MaxSetBuf
                          THEN Append(rsetBuf,
                                      [flag |-> IF has THEN "update" ELSE "new",
                                       item |-> item])
                          ELSE rsetBuf

\* store.Get: the value, unless the item has an expiration that has passed
ristretto_Get_ok(key) ==
    /\ key \in DOMAIN rstore
    /\ ~(rstore[key].expiration # ZeroTime /\ After(now, rstore[key].expiration))

\* a Put that returns time.Time{} for the expiry
RistrettoCache_Put_NoExpiry(key, data, extra, ttl) ==
    LET ct == now
        exp == ct + ttl
    IN /\ ristretto_SetWithTTL(key, ristrettoEnt(ct, exp, data, extra), Len(data), ttl)
       /\ rret' = [NoRet EXCEPT !.op = "Put", !.id = key, !.buf = data,
                                !.extra = extra, !.ttl = ttl, !.exp = ZeroTime,
                                !.ct = ct, !.ok = ristretto_SetWithTTL_ok(ttl)]

RistrettoCache_Put(key, data, extra, ttl) ==
    LET ct == now
        exp == ct + ttl
    IN /\ ristretto_SetWithTTL(key, ristrettoEnt(ct, exp, data, extra), Len(data), ttl)
       /\ rret' = [NoRet EXCEPT !.op = "Put", !.id = key, !.buf = data,
                                !.extra = extra, !.ttl = ttl, !.exp = exp,
                                !.ct = ct, !.ok = ristretto_SetWithTTL_ok(ttl)]

RistrettoCache_Get(key) ==
    /\ rret' = IF ristretto_Get_ok(key)
               THEN LET ent == rstore[key].value
                    IN [NoRet EXCEPT !.op = "Get", !.id = key, !.buf = ent.data,
                                     !.extra = ent.extra, !.exp = ent.exp,
                                     !.ct = ent.ct, !.ok = TRUE]
               ELSE [NoRet EXCEPT !.op = "Get", !.id = key]
    /\ UNCHANGED <<rstore, rsetBuf>>

\* processItems: one item taken off setBuf
ristretto_processItems ==
    /\ rsetBuf # <<>>
    /\ rsetBuf' = Tail(rsetBuf)
    /\ LET i == Head(rsetBuf)
           it == i.item
           stored == [value |-> it.value, cost |-> it.cost,
                      expiration |-> it.expiration]
           used == SumCost(rstore, DOMAIN rstore)
       IN IF i.flag = "update" \/ it.cost > MaxCost \/ it.key \in DOMAIN rstore
          THEN rstore' = rstore
          ELSE IF used + it.cost <= MaxCost
          THEN rstore' = MapPut(rstore, it.key, stored)
          ELSE \* no room: the policy rejects the item or evicts victims for it
               \/ rstore' = rstore
               \/ \E victims \in SUBSET (DOMAIN rstore) :
                     /\ used - SumCost(rstore, victims) + it.cost <= MaxCost
                     /\ rstore' = MapPut(MapDel(rstore, victims), it.key, stored)
    /\ rret' = rret

\* the expiration cleanup ticker
ristretto_cleanup ==
    /\ \E k \in DOMAIN rstore :
         rstore[k].expiration # ZeroTime /\ After(now, rstore[k].expiration)
    /\ rstore' = MapDel(rstore,
                        {k \in DOMAIN rstore :
                           rstore[k].expiration # ZeroTime
                           /\ After(now, rstore[k].expiration)})
    /\ UNCHANGED <<rsetBuf, rret>>

\* ------------------------------------------------- sequential memoryCache
RistInit ==
    /\ rstore = EmptyMap
    /\ rsetBuf = <<>>
    /\ rret = NoRet

\* handleStats not running
NoStat == [pc |-> "idle", len |-> 0, size |-> 0, hits |-> 0, misses |-> 0,
           puts |-> 0]

\* Version{}
ZeroVersion == <<0, 0, 0>>

\* vS{} and tS{}
NoLatest == [v |-> ZeroVersion, vu |-> <<>>, t |-> 0, tu |-> <<>>]

\* a goroutine that is not running InterceptUpgradeCheck
NoLgo == [pc |-> "idle", s |-> <<>>, v |-> ZeroVersion, t |-> 0]

\* no call of a Version function made yet
NoVerIn == [op |-> "", str |-> <<>>, a |-> ZeroVersion, b |-> ZeroVersion]
NoVerOut == [panic |-> FALSE, v |-> ZeroVersion, ab |-> FALSE, ba |-> FALSE,
             eq |-> FALSE]

NoLoc == [id |-> "", sawNil |-> FALSE, found |-> FALSE, counter |-> 0]

ConcInit ==
    /\ pc = [g \in Procs |-> "idle"]
    /\ loc = [g \in Procs |-> NoLoc]
    /\ readers = {}
    /\ gets = [found |-> 0, notfound |-> 0]

\* a request nobody is handling; ustatus, ubuf and uerr record what the one
\* upstream fetch of the request gave (a response, or a transport error)
NoReq ==
    [pc |-> "idle", method |-> "", id |-> "", fetches |-> 0,
     ustatus |-> 0, ubuf |-> <<>>, uerr |-> FALSE]

NoResp ==
    [written |-> FALSE, status |-> 0, body |-> <<>>, contentLength |-> -1,
     contentType |-> "", cached |-> <<>>, cacheControl |-> "", maxAge |-> 0,
     expires |-> <<>>, allow |-> "", cors |-> FALSE, hook |-> <<>>,
     panic |-> FALSE, at |-> ZeroTime]

HookIdle ==
    /\ hooks = EmptyBag
    /\ crashed = FALSE

\* no handleStats call, a new LatestTracker (l.v.Store(vS{}), l.t.Store(tS{}))
\* and no call of a Version function
SideIdle ==
    /\ stat = NoStat
    /\ seen = {}
    /\ latest = NoLatest
    /\ lgo = [g \in Procs |-> NoLgo]
    /\ lseen = [vs |-> {}, ts |-> {}]
    /\ verIn = NoVerIn
    /\ verOut = NoVerOut

AuxIdle ==
    /\ inbound = <<>>
    /\ built = <<>>
    /\ batchReq = <<>>
    /\ batchResp = <<>>
    /\ stack = [b \in BatchReqs |-> <<>>]
    /\ answer = [b \in BatchReqs |-> <<>>]
    /\ SideIdle

ProxyIdle ==
    /\ HookIdle
    /\ AuxIdle
    /\ cacheImpl = "none"
    /\ CacheTTL = RouteTTL
    /\ req = [r \in Reqs |-> NoReq]
    /\ resp = [r \in Reqs |-> NoResp]

MemInit ==
    /\ RistInit
    /\ ConcInit
    /\ ProxyIdle
    /\ now = StartTime
    /\ calls = 0
    /\ Limit \in Limits
    /\ size = 0
    /\ entries = EmptyMap
    /\ entriesNil = TRUE
    /\ init = ZeroTime
    /\ hits = 0
    /\ puts = 0
    /\ misses = 0
    /\ ret = NoRet

Tick ==
    /\ now < MaxTime
    /\ now' = now + 1
    /\ ret' = [NoRet EXCEPT !.op = "Tick"]
    /\ rret' = [NoRet EXCEPT !.op = "Tick"]
    /\ UNCHANGED <<calls, Limit, size, entries, entriesNil, init, hits, puts, misses>>
    /\ UNCHANGED <<rstore, rsetBuf, concVars, proxyVars>>
    /\ UNCHANGED <<hookVars, auxVars>>

MemPut ==
    /\ calls < MaxCalls
    /\ calls' = calls + 1
    /\ \E id \in Keys, p \in Payloads, ttl \in MemTTLs :
         memoryCache_Put(id, p[1], p[2], ttl)
    /\ UNCHANGED <<now, ristVars, concVars, proxyVars>>
    /\ UNCHANGED <<hookVars, auxVars>>

MemGet ==
    /\ calls < MaxCalls
    /\ calls' = calls + 1
    /\ \E id \in Keys : memoryCache_Get(id)
    /\ UNCHANGED <<now, ristVars, concVars, proxyVars>>
    /\ UNCHANGED <<hookVars, auxVars>>

MemClean ==
    /\ calls < MaxCalls
    /\ calls' = calls + 1
    /\ memoryCache_Clean
    /\ UNCHANGED <<now, ristVars, concVars, proxyVars>>
    /\ UNCHANGED <<hookVars, auxVars>>

MemNext == Tick \/ MemPut \/ MemGet \/ MemClean

SpecMem == MemInit /\ [][MemNext]_vars

\* ------------------------------------- both caches given the same calls
\* A caller makes each Put and Get on a memoryCache and on a RistrettoCache
\* of the same capacity; the memoryCache sweep and ristretto's background
\* loops run on their own schedule.
BothInit ==
    /\ MemInit
    /\ Limit = MaxCost

BothPut ==
    /\ calls < MaxBothCalls
    /\ calls' = calls + 1
    /\ \E id \in BothKeys, p \in BothPayloads, ttl \in TTLs :
         /\ memoryCache_Put(id, p[1], p[2], ttl)
         /\ RistrettoCache_Put(id, p[1], p[2], ttl)
    /\ UNCHANGED <<now, concVars, proxyVars>>
    /\ UNCHANGED <<hookVars, auxVars>>

BothGet ==
    /\ calls < MaxBothCalls
    /\ calls' = calls + 1
    /\ \E id \in BothKeys :
         /\ memoryCache_Get(id)
         /\ RistrettoCache_Get(id)
    /\ UNCHANGED <<now, concVars, proxyVars>>
    /\ UNCHANGED <<hookVars, auxVars>>

BothClean ==
    /\ memoryCache_Clean
    /\ rret' = [NoRet EXCEPT !.op = "Clean"]
    /\ UNCHANGED <<now, calls, rstore, rsetBuf, concVars, proxyVars>>
    /\ UNCHANGED <<hookVars, auxVars>>

BothProcessItems ==
    /\ ristretto_processItems
    /\ UNCHANGED <<now, calls, memVars, concVars, proxyVars>>
    /\ UNCHANGED <<hookVars, auxVars>>

BothCleanup ==
    /\ ristretto_cleanup
    /\ UNCHANGED <<now, calls, memVars, concVars, proxyVars>>
    /\ UNCHANGED <<hookVars, auxVars>>

BothNext ==
    \/ Tick
    \/ BothPut
    \/ BothGet
    \/ BothClean
    \/ BothProcessItems
    \/ BothCleanup

SpecBoth == BothInit /\ [][BothNext]_vars

\* --------------------------------------- memoryCache under concurrent calls
\* Each goroutine runs memoryCache.Get as the code does: it takes mu.RLock,
\* which any number of readers hold together, and then reads and writes
\* c.entries/c.init (ensureInit) and c.hits/c.misses (x++ is a load and a
\* store) with nothing else ordering it against the other readers.  Put and
\* Clean take mu.Lock and run while no reader holds the lock.

\* c.mu.RLock(); ensureInit's test of c.entries == nil
Get_RLock(g, id) ==
    /\ pc[g] = "idle"
    /\ calls < MaxConcCalls
    /\ calls' = calls + 1
    /\ readers' = readers \cup {g}
    /\ loc' = [loc EXCEPT ![g] = [NoLoc EXCEPT !.id = id, !.sawNil = entriesNil]]
    /\ pc' = [pc EXCEPT ![g] = "lookup"]
    /\ UNCHANGED <<now, memVars, ristVars, gets, proxyVars>>
    /\ UNCHANGED <<hookVars, auxVars>>

\* ensureInit's assignments, the lookup, and the load of the counter that
\* the ++ is about to write
Get_Lookup(g) ==
    /\ pc[g] = "lookup"
    /\ entriesNil' = (IF loc[g].sawNil THEN FALSE ELSE entriesNil)
    /\ init' = IF loc[g].sawNil THEN now ELSE init
    /\ LET id == loc[g].id
           miss == id \notin DOMAIN entries \/ After(now, entries[id].exp)
       IN loc' = [loc EXCEPT ![g].found = ~miss,
                             ![g].counter = IF miss THEN misses ELSE hits]
    /\ pc' = [pc EXCEPT ![g] = "store"]
    /\ UNCHANGED <<now, calls, Limit, size, entries, hits, puts, misses, ret,
                   ristVars, readers, gets, proxyVars>>
    /\ UNCHANGED <<hookVars, auxVars>>

\* the store of the ++, the return and the deferred c.mu.RUnlock()
Get_Return(g) ==
    /\ pc[g] = "store"
    /\ LET id == loc[g].id
       IN IF loc[g].found
          THEN /\ hits' = loc[g].counter + 1
               /\ misses' = misses
               /\ ret' = [NoRet EXCEPT !.op = "Get", !.id = id,
                                       !.buf = entries[id].buf,
                                       !.extra = entries[id].extra,
                                       !.exp = entries[id].exp,
                                       !.ct = entries[id].ct, !.ok = TRUE]
               /\ gets' = [gets EXCEPT !.found = @ + 1]
          ELSE /\ misses' = loc[g].counter + 1
               /\ hits' = hits
               /\ ret' = [NoRet EXCEPT !.op = "Get", !.id = id]
               /\ gets' = [gets EXCEPT !.notfound = @ + 1]
    /\ readers' = readers \ {g}
    /\ loc' = [loc EXCEPT ![g] = NoLoc]
    /\ pc' = [pc EXCEPT ![g] = "idle"]
    /\ UNCHANGED <<now, calls, Limit, size, entries, entriesNil, init, puts,
                   ristVars, proxyVars>>
    /\ UNCHANGED <<hookVars, auxVars>>

\* Put under c.mu.Lock()
ConcPut(g) ==
    /\ pc[g] = "idle"
    /\ readers = {}
    /\ calls < MaxConcCalls
    /\ calls' = calls + 1
    /\ \E id \in ConcKeys, p \in ConcPayloads, ttl \in ConcTTLs :
         memoryCache_Put(id, p[1], p[2], ttl)
    /\ UNCHANGED <<now, ristVars, concVars, proxyVars>>
    /\ UNCHANGED <<hookVars, auxVars>>

\* Clean under c.mu.Lock()
ConcClean ==
    /\ readers = {}
    /\ calls < MaxConcCalls
    /\ calls' = calls + 1
    /\ memoryCache_Clean
    /\ UNCHANGED <<now, ristVars, concVars, proxyVars>>
    /\ UNCHANGED <<hookVars, auxVars>>

ConcNext ==
    \/ Tick
    \/ \E g \in Procs, id \in ConcKeys : Get_RLock(g, id)
    \/ \E g \in Procs : Get_Lookup(g)
    \/ \E g \in Procs : Get_Return(g)
    \/ \E g \in Procs : ConcPut(g)
    \/ ConcClean

SpecConc == MemInit /\ [][ConcNext]_vars

\* ------------------------------------------------ proxyHandler (proxy.go)
\* The earlier handler, mounted in front of a memoryCache that is swept by
\* CleanEvery.  A request runs up to the upstream call, waits for it, and
\* then finishes; the other requests and the sweep run in between.

\* time.Time.Format(http.TimeFormat): the time as text, to the second
Format(t) == <<"http-date", t>>

\* fmt.Sprintf("max-age=%.0f", d.Seconds()) for a duration of whole seconds
MaxAge(d) == d

\* lines 19-75: the headers every response gets, OPTIONS, the method check,
\* the answer from the cache on a hit (the server sends no body on HEAD), and
\* on a miss the upstream request built from the path (parses: url.Parse and
\* http.NewRequest accept it)
Old_Begin(r, method, id, parses) ==
    /\ req[r].pc = "idle"
    /\ calls < MaxReqs
    /\ calls' = calls + 1
    /\ LET base == [NoResp EXCEPT !.written = TRUE, !.cors = TRUE, !.at = now]
       IN IF method = "OPTIONS"
          THEN /\ resp' = [resp EXCEPT ![r] =
                             [base EXCEPT !.status = 200, !.contentLength = 0]]
               /\ req' = [req EXCEPT ![r] = [NoReq EXCEPT !.method = method, !.id = id]]
               /\ UNCHANGED memVars
          ELSE IF method \notin {"GET", "HEAD"}
          THEN /\ resp' = [resp EXCEPT ![r] = [base EXCEPT !.status = 405]]
               /\ req' = [req EXCEPT ![r] = [NoReq EXCEPT !.method = method, !.id = id]]
               /\ UNCHANGED memVars
          ELSE /\ memoryCache_Get(id)
               /\ IF ret'.ok
                  THEN /\ resp' = [resp EXCEPT ![r] =
                                     [base EXCEPT !.status = 200,
                                                  !.body = IF method = "HEAD"
                                                           THEN <<>> ELSE ret'.buf,
                                                  !.contentType = ret'.extra,
                                                  !.cached = Format(ret'.ct),
                                                  !.cacheControl = "max-age",
                                                  !.maxAge = MaxAge(now - ret'.exp),
                                                  !.expires = Format(ret'.exp)]]
                       /\ req' = [req EXCEPT ![r] =
                                    [NoReq EXCEPT !.method = method, !.id = id]]
                  ELSE IF ~parses
                  THEN /\ resp' = [resp EXCEPT ![r] = [base EXCEPT !.status = 500]]
                       /\ req' = [req EXCEPT ![r] =
                                    [NoReq EXCEPT !.method = method, !.id = id]]
                  ELSE /\ resp' = [resp EXCEPT ![r] = NoResp]
                       /\ req' = [req EXCEPT ![r] =
                                    [NoReq EXCEPT !.pc = "upstream",
                                                  !.method = method,
                                                  !.id = id, !.fetches = 1]]
    /\ UNCHANGED <<now, ristVars, concVars, cacheImpl, CacheTTL>>
    /\ UNCHANGED <<hookVars, auxVars>>

\* lines 85-100: c.Do or ioutil.ReadAll failed
Old_UpstreamError(r) ==
    /\ req[r].pc = "upstream"
    /\ resp' = [resp EXCEPT ![r] =
                  [NoResp EXCEPT !.written = TRUE, !.cors = TRUE, !.at = now,
                                 !.status = 500]]
    /\ req' = [req EXCEPT ![r].pc = "idle", ![r].uerr = TRUE]
    /\ UNCHANGED <<now, calls, memVars, ristVars, concVars, cacheImpl, CacheTTL>>
    /\ UNCHANGED <<hookVars, auxVars>>

\* lines 102-121: upstream answered; store a 200, set the cache headers, write
Old_UpstreamResponse(r, status, buf, ctype) ==
    /\ req[r].pc = "upstream"
    /\ LET base == [NoResp EXCEPT !.written = TRUE, !.cors = TRUE, !.at = now,
                                  !.status = status,
                                  !.contentLength = Len(buf),
                                  !.contentType = ctype,
                                  !.body = IF req[r].method = "HEAD"
                                           THEN <<>> ELSE buf]
       IN IF status = 200
          THEN /\ memoryCache_Put(req[r].id, buf, ctype, CacheTTL)
               /\ resp' = [resp EXCEPT ![r] =
                             IF ret'.ok
                             THEN [base EXCEPT !.cached = "new",
                                               !.cacheControl = "max-age",
                                               !.maxAge = MaxAge(now - ret'.exp),
                                               !.expires = Format(ret'.exp)]
                             ELSE base]
          ELSE /\ resp' = [resp EXCEPT ![r] =
                             [base EXCEPT !.cached = "no",
                                          !.cacheControl = "no-cache"]]
               /\ UNCHANGED memVars
    /\ req' = [req EXCEPT ![r].pc = "idle", ![r].ustatus = status,
                           ![r].ubuf = buf]
    /\ UNCHANGED <<now, calls, ristVars, concVars, cacheImpl, CacheTTL>>
    /\ UNCHANGED <<hookVars, auxVars>>

\* CleanEvery(time.Minute): the sweep of the handler's memoryCache
Old_Clean ==
    /\ memoryCache_Clean
    /\ UNCHANGED <<now, calls, ristVars, concVars, proxyVars>>
    /\ UNCHANGED <<hookVars, auxVars>>

OldProxyInit ==
    /\ MemInit
    /\ Limit = MaxCost

OldProxyNext ==
    \/ Tick
    \/ \E r \in Reqs, method \in Methods, id \in ReqKeys, parses \in BOOLEAN :
         Old_Begin(r, method, id, parses)
    \/ \E r \in Reqs : Old_UpstreamError(r)
    \/ \E r \in Reqs, status \in UpstreamStatuses, p \in UpstreamPayloads :
         Old_UpstreamResponse(r, status, p[1], p[2])
    \/ Old_Clean

SpecOldProxy == OldProxyInit /\ [][OldProxyNext]_vars

\* --------------------------------------- ProxyHandler (unnamed/part_007)
\* The current handler, with Server, CORS and Hook set as main sets them and
\* KeepHeaders left nil (Content-Type is kept).

\* p.Cache.Get(p.CacheID(r)) on the configured cache
Cache_Get(id) ==
    CASE cacheImpl = "memory" -> memoryCache_Get(id) /\ UNCHANGED ristVars
      [] cacheImpl = "ristretto" -> RistrettoCache_Get(id) /\ UNCHANGED memVars

\* p.Cache.Put(p.CacheID(r), ubuf, uhdr, p.CacheTTL) on the configured cache
Cache_Put(id, buf, hdr, ttl) ==
    CASE cacheImpl = "memory" ->
           memoryCache_Put(id, buf, hdr, ttl) /\ UNCHANGED ristVars
      [] cacheImpl = "ristretto" ->
           RistrettoCache_Put(id, buf, hdr, ttl) /\ UNCHANGED <<memVars>>

\* the body written whatever the method
Body_Always(method, buf) == buf

\* lines 125-132: WriteHeader alone on HEAD, WriteHeader and Write(buf) else
Body(method, buf) == IF method = "HEAD" THEN <<>> ELSE buf

\* a handler that leaves the hook out
transformResponse_Skipped(buf) == <<>>

\* lines 208-212: p.Hook(r, buf), called once; the invocations made for a
\* request, by their argument
transformResponse(buf) == <<buf>>

\* lines 102-132: headers, hook, cache marker, freshness headers, write
Finish(method, status, buf, hdr, cached, exp) ==
    LET hooked == [NoResp EXCEPT !.cors = TRUE, !.hook = transformResponse(buf),
                                 !.at = now]
    IN IF cached = "no"
       THEN [hooked EXCEPT !.written = TRUE, !.status = status,
                           !.contentType = hdr, !.cached = cached,
                           !.cacheControl = "no-cache",
                           !.contentLength = IF method = "HEAD" THEN 0 ELSE Len(buf),
                           !.body = Body(method, buf)]
       ELSE IF exp = ZeroTime
       THEN [hooked EXCEPT !.panic = TRUE]
       ELSE [hooked EXCEPT !.written = TRUE, !.status = status,
                           !.contentType = hdr, !.cached = cached,
                           !.cacheControl = "max-age",
                           !.maxAge = MaxAge(exp - now),
                           !.expires = Format(exp),
                           !.contentLength = IF method = "HEAD" THEN 0 ELSE Len(buf),
                           !.body = Body(method, buf)]

\* lines 48-78 and upstream's lines 136-153: OPTIONS, the method check, the
\* cache probe with the answer on a hit, and on a miss the upstream request
\* built from the path (parses: url.Parse and http.NewRequest accept it)
ServeHTTP(r, method, id, parses) ==
    /\ ~crashed
    /\ req[r].pc = "idle"
    /\ calls < MaxServes
    /\ calls' = calls + 1
    /\ LET base == [NoResp EXCEPT !.written = TRUE, !.cors = TRUE, !.at = now]
           done == [NoReq EXCEPT !.method = method, !.id = id]
           miss == IF parses
                   THEN /\ resp' = [resp EXCEPT ![r] = NoResp]
                        /\ req' = [req EXCEPT ![r] =
                                     [NoReq EXCEPT !.pc = "upstream",
                                                   !.method = method,
                                                   !.id = id, !.fetches = 1]]
                   ELSE /\ resp' = [resp EXCEPT ![r] = [base EXCEPT !.status = 502]]
                        /\ req' = [req EXCEPT ![r] = done]
       IN IF method = "OPTIONS"
          THEN /\ resp' = [resp EXCEPT ![r] =
                             [base EXCEPT !.status = 200, !.contentLength = 0]]
               /\ req' = [req EXCEPT ![r] = done]
               /\ UNCHANGED <<memVars, ristVars, hooks>>
          ELSE IF method \notin {"GET", "HEAD"}
          THEN /\ resp' = [resp EXCEPT ![r] =
                             [base EXCEPT !.status = 405,
                                          !.allow = "GET, HEAD, OPTIONS"]]
               /\ req' = [req EXCEPT ![r] = done]
               /\ UNCHANGED <<memVars, ristVars, hooks>>
          ELSE IF cacheImpl = "none"
          THEN /\ miss
               /\ UNCHANGED <<memVars, ristVars, hooks>>
          ELSE /\ Cache_Get(id)
               /\ LET got == IF cacheImpl = "memory" THEN ret' ELSE rret'
                  IN IF got.ok
                     THEN /\ resp' = [resp EXCEPT ![r] =
                                        Finish(method, 200, got.buf, got.extra,
                                               Format(got.ct), got.exp)]
                          /\ req' = [req EXCEPT ![r] = done]
                          /\ hooks' = hooks (+) SetToBag({got.buf})
                     ELSE miss /\ UNCHANGED hooks
    /\ UNCHANGED <<now, concVars, cacheImpl, CacheTTL, crashed>>

\* the handler takes up a request a client sent
Serve_Begin(r, method, id, parses) ==
    /\ ServeHTTP(r, method, id, parses)
    /\ UNCHANGED auxVars

\* lines 83-89 with upstream's lines 169-183: Client.Do or ReadAll failed
Serve_UpstreamError(r) ==
    /\ ~crashed
    /\ req[r].pc = "upstream"
    /\ resp' = [resp EXCEPT ![r] =
                  [NoResp EXCEPT !.written = TRUE, !.cors = TRUE, !.at = now,
                                 !.status = 502]]
    /\ req' = [req EXCEPT ![r].pc = "idle", ![r].uerr = TRUE]
    /\ UNCHANGED <<now, calls, memVars, ristVars, concVars, cacheImpl, CacheTTL>>
    /\ UNCHANGED <<hookVars, auxVars>>

\* a rejected Put marked like a response that was not to be cached
Marker_RejectedIsNo(put) ==
    IF put.ok THEN <<"new", put.exp>> ELSE <<"no", ZeroTime>>

\* lines 92-96: the marker and the expiry after p.Cache.Put
Marker(put) ==
    IF put.ok THEN <<"new", put.exp>> ELSE <<"nospace", now + CacheTTL>>

\* every upstream response stored, whatever its status
Cacheable_AnyStatus(status) == cacheImpl # "none"

\* line 91: ustatus == http.StatusOK && p.Cache != nil
Cacheable(status) == status = 200 /\ cacheImpl # "none"

\* lines 90-132: upstream answered; store a 200 and write the response
Serve_UpstreamResponse(r, status, buf, hdr) ==
    /\ ~crashed
    /\ req[r].pc = "upstream"
    /\ IF Cacheable(status)
       THEN /\ Cache_Put(req[r].id, buf, hdr, CacheTTL)
            /\ LET put == IF cacheImpl = "memory" THEN ret' ELSE rret'
               IN resp' = [resp EXCEPT ![r] =
                            Finish(req[r].method, status, buf, hdr,
                                   Marker(put)[1], Marker(put)[2])]
       ELSE /\ resp' = [resp EXCEPT ![r] =
                          Finish(req[r].method, status, buf, hdr, "no", ZeroTime)]
            /\ UNCHANGED <<memVars, ristVars>>
    /\ req' = [req EXCEPT ![r].pc = "idle", ![r].ustatus = status,
                           ![r].ubuf = buf]
    /\ hooks' = hooks (+) SetToBag({buf})
    /\ UNCHANGED <<now, calls, concVars, cacheImpl, CacheTTL, crashed>>
    /\ UNCHANGED auxVars

\* the background work of the configured cache
Serve_Clean ==
    /\ ~crashed
    /\ cacheImpl = "memory"
    /\ memoryCache_Clean
    /\ UNCHANGED <<now, calls, ristVars, concVars, proxyVars>>
    /\ UNCHANGED <<hookVars, auxVars>>

Serve_ProcessItems ==
    /\ ~crashed
    /\ ristretto_processItems
    /\ UNCHANGED <<now, calls, memVars, concVars, proxyVars>>
    /\ UNCHANGED <<hookVars, auxVars>>

Serve_Cleanup ==
    /\ ~crashed
    /\ ristretto_cleanup
    /\ UNCHANGED <<now, calls, memVars, concVars, proxyVars>>
    /\ UNCHANGED <<hookVars, auxVars>>

\* telegram.go:111-124 called at latest.go:83: MustExtractVersion panics when
\* strconv.ParseUint rejects a number group of the UpgradeURL (one beyond
\* uint64); of the upstream bodies, the two-byte one carries such a URL
MustExtractVersion_Panics(buf) == buf = <<8, 8>>

\* kfwproxy.go:195-200, latest.go:79-107: a goroutine started by the hook runs
\* InterceptUpgradeCheck(buf); nothing recovers a panic there, so it ends the
\* process and with it every handler
Hook_Run(buf) ==
    /\ ~crashed
    /\ BagIn(buf, hooks)
    /\ hooks' = hooks (-) SetToBag({buf})
    /\ crashed' = MustExtractVersion_Panics(buf)
    /\ UNCHANGED <<now, calls, memVars, ristVars, concVars, proxyVars, auxVars>>

ProxyInit ==
    /\ now = StartTime
    /\ calls = 0
    /\ Limit = MaxCost
    /\ size = 0
    /\ entries = EmptyMap
    /\ entriesNil = TRUE
    /\ init = ZeroTime
    /\ hits = 0
    /\ puts = 0
    /\ misses = 0
    /\ ret = NoRet
    /\ RistInit
    /\ ConcInit
    /\ cacheImpl \in CacheImpls
    /\ CacheTTL \in CacheTTLs
    /\ req = [r \in Reqs |-> NoReq]
    /\ resp = [r \in Reqs |-> NoResp]
    /\ HookIdle
    /\ AuxIdle

ProxyNext ==
    \/ Tick
    \/ \E r \in Reqs, method \in Methods, id \in ReqKeys, parses \in BOOLEAN :
         Serve_Begin(r, method, id, parses)
    \/ \E r \in Reqs : Serve_UpstreamError(r)
    \/ \E r \in Reqs, status \in UpstreamStatuses, p \in UpstreamPayloads :
         Serve_UpstreamResponse(r, status, p[1], p[2])
    \/ Serve_Clean
    \/ Serve_ProcessItems
    \/ Serve_Cleanup
    \/ \E p \in UpstreamPayloads : Hook_Run(p[1])

SpecProxy == ProxyInit /\ [][ProxyNext]_vars

\* the upstream call of request r returns, with a response or with an error
\* (http.Client.Do returns or times out)
UpstreamReturns(r) ==
    \/ \E status \in UpstreamStatuses, p \in UpstreamPayloads :
         Serve_UpstreamResponse(r, status, p[1], p[2])
    \/ Serve_UpstreamError(r)

\* the same handler where every upstream call returns: a handler goroutine
\* that can take its next step takes it
SpecProxyFair ==
    ProxyInit /\ [][ProxyNext]_vars /\ \A r \in Reqs : WF_vars(UpstreamReturns(r))

\* ------------------------------ cache id and upstream request of a request
\* url.URL.String() of a server request: the path, then ? and the query
URL_String(r) ==
    r.path \o (IF r.query = <<>> THEN <<>> ELSE <<"?">> \o r.query)

\* http.Header.Get: the first value of the header, "" when it is absent
Header_Get(h, k) == IF h[k] = <<>> THEN <<>> ELSE h[k][1]

\* kfwproxy.go:198: r.URL.String() + r.Header.Get("X-Kobo-Accept-Preview")
CacheID(r) == URL_String(r) \o Header_Get(r.hdr, PreviewHeader)

RECURSIVE TrimLeft(_, _)
\* strings.TrimLeft(s, c)
TrimLeft(s, c) ==
    IF s # <<>> /\ Head(s) = c THEN TrimLeft(Tail(s), c) ELSE s

\* every inbound header copied to the upstream request
upstream_AllHeaders(r) ==
    [method |-> "GET",
     url |-> <<"http://">> \o TrimLeft(r.path, "/")
             \o (IF r.query = <<>> THEN <<>> ELSE <<"?">> \o r.query),
     hdr |-> [k \in {k \in HeaderNames : r.hdr[k] # <<>>} |-> r.hdr[k]]]

\* part_007:136-162: the upstream request is a GET for the path without its
\* leading slashes under the default scheme, with the inbound query, the
\* values of the PassHeaders the inbound request has, and the User-Agent
upstream(r) ==
    [method |-> "GET",
     url |-> <<"http://">> \o TrimLeft(r.path, "/")
             \o (IF r.query = <<>> THEN <<>> ELSE <<"?">> \o r.query),
     hdr |-> [k \in {k \in PassHeaders : r.hdr[k] # <<>>} \cup {"User-Agent"} |->
                IF k = "User-Agent" THEN <<UserAgent>> ELSE r.hdr[k]]]

\* a request arrives
Receive(r) ==
    /\ Len(inbound) < MaxInbound
    /\ inbound' = Append(inbound, r)
    /\ UNCHANGED <<now, calls, memVars, ristVars, concVars, proxyVars, hookVars,
                   built, batchReq, batchResp, nestVars, sideVars>>

\* the handler computes the cache id of the next request and builds its
\* upstream request
Build ==
    /\ Len(built) < Len(inbound)
    /\ LET r == inbound[Len(built) + 1]
       IN built' = Append(built, [key |-> CacheID(r), up |-> upstream(r)])
    /\ UNCHANGED <<now, calls, memVars, ristVars, concVars, proxyVars, hookVars,
                   inbound, batchReq, batchResp, nestVars, sideVars>>

RequestNext ==
    \/ \E r \in InboundRequests : Receive(r)
    \/ Build

RequestInit ==
    /\ MemInit
    /\ Limit = MaxCost

SpecRequest == RequestInit /\ [][RequestNext]_vars

\* ------------------------------------------------ batch handler (main)
\* the larger of the two lifetimes kept
Reduce_Max(cache, c) == IF c > cache THEN c ELSE cache

\* kfwproxy.go:318-320: a positive max-age below cache replaces it
Reduce(cache, c) == IF c < cache THEN c ELSE cache

RECURSIVE Directives(_, _)
\* kfwproxy.go:312-323: the loop over the directives of a Cache-Control
\* header, on the pair (cache, noCache)
Directives(cc, st) ==
    IF cc = <<>> THEN st
    ELSE LET d == Head(cc)
             st1 == IF d.name # "max-age" THEN st
                    ELSE IF d.value <= 0 THEN [st EXCEPT !.noCache = TRUE]
                    ELSE [st EXCEPT !.cache = Reduce(st.cache, d.value)]
         IN Directives(Tail(cc), st1)

\* kfwproxy.go:291-292, 327-331: the headers the dispatched handler recorded
\* (the request id of the handler chain, and Cache-Control when it set one);
\* an entry's header is kept under h = 1 and left out of the JSON when empty
HeaderMap(x) ==
    {"X-KFWProxy-Request-ID"} \cup (IF x.cc = <<>> THEN {} ELSE {"Cache-Control"})

\* a loop whose malformed sub-path leaves no entry behind
BatchItem_Skip(x, hd, st) ==
    IF x.malformed
    THEN st
    ELSE LET st1 == [st EXCEPT !.dispatched = @ + 1]
             st2 == IF st1.noCache THEN st1
                    ELSE IF x.code # 200
                    THEN [st1 EXCEPT !.noCache = TRUE]
                    ELSE Directives(x.cc, st1)
         IN [st2 EXCEPT !.res =
               Append(@, [status |-> x.code,
                          header |-> IF hd = "1" THEN HeaderMap(x) ELSE {},
                          body |-> x.body])]

\* kfwproxy.go:295-332: one round of the loop over the sub-items; st is
\* (cache, noCache, res, dispatched), res the recorded entries and
\* dispatched the number of hdl.ServeHTTP calls made
BatchItem(x, hd, st) ==
    IF x.malformed
    THEN [st EXCEPT !.res = Append(@, [status |-> 400, header |-> {},
                                       body |-> "parse error"])]
    ELSE LET st1 == [st EXCEPT !.dispatched = @ + 1]
             st2 == IF st1.noCache THEN st1
                    ELSE IF x.code # 200
                    THEN [st1 EXCEPT !.noCache = TRUE]
                    ELSE Directives(x.cc, st1)
         IN [st2 EXCEPT !.res =
               Append(@, [status |-> x.code,
                          header |-> IF hd = "1" THEN HeaderMap(x) ELSE {},
                          body |-> x.body])]

RECURSIVE BatchLoop(_, _, _)
\* kfwproxy.go:295-332: the loop over the sub-items
BatchLoop(xs, hd, st) ==
    IF xs = <<>> THEN st
    ELSE BatchLoop(Tail(xs), hd, BatchItem(Head(xs), hd, st))

\* kfwproxy.go:293: cache, noCache before the loop
BatchStart ==
    [cache |-> DefaultTTL, noCache |-> FALSE, res |-> <<>>, dispatched |-> 0]

NoBatchResp ==
    [status |-> 0, error |-> "", cacheControl |-> "", maxAge |-> 0,
     pragma |-> "", expires |-> <<>>, res |-> <<>>, dispatched |-> 0]

\* kfwproxy.go:334-347: the cache headers and the JSON array of the entries
BatchWrite(st) ==
    IF st.noCache
    THEN [NoBatchResp EXCEPT !.status = 200, !.res = st.res,
                             !.dispatched = st.dispatched,
                             !.cacheControl = "no-cache",
                             !.pragma = "no-cache",
                             !.expires = <<"0">>]
    ELSE [NoBatchResp EXCEPT !.status = 200, !.res = st.res,
                             !.dispatched = st.dispatched,
                             !.cacheControl = "max-age",
                             !.maxAge = st.cache,
                             !.expires = Format(now + st.cache)]

\* a batch of any length let through
TooMany_Never(xs) == FALSE

\* kfwproxy.go:277: len(xs) > 20
TooMany(xs) == Len(xs) > BatchLimit

\* any value of h let through
BadFlag_Never(hd) == FALSE

\* kfwproxy.go:284: hd != "" && hd != "1"
BadFlag(hd) == hd # "" /\ hd # "1"

\* kfwproxy.go:270-287: the checks before the loop; 0 when the batch passes
Validate(xs, hd) ==
    IF Len(xs) = 0 THEN 400
    ELSE IF TooMany(xs) THEN 403
    ELSE IF BadFlag(hd) THEN 400
    ELSE 0

\* the text http.Error writes with that status
ValidateError(xs, hd) ==
    IF Len(xs) = 0 THEN "Parameter x[] missing for batch GET"
    ELSE IF TooMany(xs) THEN "Too many requests in batch GET"
    ELSE IF BadFlag(hd) THEN "Parameter h must be 1 or unset for batch GET"
    ELSE ""

\* the refusal of a batch that fails the checks
Refuse(xs, hd) ==
    [NoBatchResp EXCEPT !.status = Validate(xs, hd),
                        !.error = ValidateError(xs, hd)]

\* kfwproxy.go:246-352: the batch handler on a request that is not itself
\* part of a batch
Batch(xs, hd) ==
    /\ batchReq = <<>>
    /\ batchReq' = <<[xs |-> xs, h |-> hd]>>
    /\ batchResp' =
         IF Validate(xs, hd) # 0
         THEN <<Refuse(xs, hd)>>
         ELSE <<BatchWrite(BatchLoop(xs, hd, BatchStart))>>
    /\ UNCHANGED <<now, calls, memVars, ristVars, concVars, proxyVars, hookVars,
                   inbound, built, nestVars, sideVars>>

\* the sequences over S of length 0..n
SeqsUpTo(S, n) == UNION {[1..k -> S] : k \in 0..n}

\* the batches served: every short one, and those of one repeated sub-item
\* at the limit and one past it
Batches ==
    SeqsUpTo(SubItems, MaxItems)
    \cup {[i \in 1..n |-> x] : n \in {BatchLimit, BatchLimit + 1}, x \in SubItems}

BatchNext ==
    \/ Tick
    \/ \E xs \in Batches, hd \in HFlags : Batch(xs, hd)

SpecBatch == RequestInit /\ [][BatchNext]_vars

\* --------------------------------- batch handler, invocation by invocation
\* An invocation of the batch handler is a frame: batched is the value of
\* the batched key in its request's context, i the sub-item it is at, st the
\* loop's variables.  The frames of one client request form a stack: a
\* sub-request the router hands to the batch handler runs on top of the
\* invocation that dispatched it.
Frame(ctx, xs, hd) ==
    [batched |-> ctx, xs |-> xs, hd |-> hd, pc |-> "check", i |-> 1,
     st |-> BatchStart]

\* the recursion check left out
Recursive_Never(f) == FALSE

\* kfwproxy.go:262: r.Context().Value(batched) != nil
Recursive(f) == f.batched

\* the Cache-Control header of a batch response, as its directives
RespCC(response) ==
    IF response.cacheControl = "max-age" THEN <<MaxAgeDirective(response.maxAge)>>
    ELSE IF response.cacheControl = "no-cache" THEN <<NoCacheDirective>>
    ELSE <<>>

\* the invocation on top of b's stack returns: to the client, or to the
\* recorder of the invocation below, whose loop goes on (lines 306-332)
Return(b, response) ==
    LET stk == stack[b]
        n == Len(stk)
    IN IF n = 1
       THEN /\ stack' = [stack EXCEPT ![b] = <<>>]
            /\ answer' = [answer EXCEPT ![b] =
                             <<[xs |-> stk[1].xs, resp |-> response]>>]
       ELSE LET parent == stk[n - 1]
                rc == [malformed |-> FALSE, route |-> "batch",
                       code |-> response.status, cc |-> RespCC(response),
                       body |-> IF response.error # "" THEN response.error
                                ELSE "json"]
                parent1 == [parent EXCEPT !.st = BatchItem(rc, parent.hd, parent.st),
                                          !.i = @ + 1]
            IN /\ stack' = [stack EXCEPT ![b] = Append(SubSeq(stk, 1, n - 2), parent1)]
               /\ answer' = answer

\* a client sends a batch request; its context has no batched value
Nest_Arrive(b, xs, hd) ==
    /\ stack[b] = <<>>
    /\ answer[b] = <<>>
    /\ stack' = [stack EXCEPT ![b] = <<Frame(FALSE, xs, hd)>>]
    /\ UNCHANGED <<now, calls, memVars, ristVars, concVars, proxyVars, hookVars,
                   inbound, built, batchReq, batchResp, answer, sideVars>>

\* kfwproxy.go:262-287: the recursion check and the validation
Nest_Check(b) ==
    /\ stack[b] # <<>>
    /\ LET n == Len(stack[b])
           f == stack[b][n]
       IN /\ f.pc = "check"
          /\ IF Recursive(f)
             THEN Return(b, [NoBatchResp EXCEPT
                                !.status = 403,
                                !.error = "Batch recursion not allowed"])
             ELSE IF Validate(f.xs, f.hd) # 0
             THEN Return(b, Refuse(f.xs, f.hd))
             ELSE /\ stack' = [stack EXCEPT ![b][n].pc = "loop"]
                  /\ answer' = answer
    /\ UNCHANGED <<now, calls, memVars, ristVars, concVars, proxyVars, hookVars,
                   inbound, built, batchReq, batchResp, sideVars>>

\* kfwproxy.go:295-332: the next sub-item; one the router hands to the batch
\* handler starts an invocation whose context has batched set (line 299) and
\* whose own sub-items are sub
Nest_Item(b, sub) ==
    /\ stack[b] # <<>>
    /\ LET n == Len(stack[b])
           f == stack[b][n]
       IN /\ f.pc = "loop"
          /\ f.i <= Len(f.xs)
          /\ LET x == f.xs[f.i]
             IN IF ~x.malformed /\ x.route = "batch"
                THEN /\ n < MaxFrames
                     /\ stack' = [stack EXCEPT ![b] =
                                     Append(@, Frame(TRUE, sub, f.hd))]
                ELSE stack' = [stack EXCEPT ![b][n].st = BatchItem(x, f.hd, f.st),
                                            ![b][n].i = f.i + 1]
    /\ UNCHANGED <<now, calls, memVars, ristVars, concVars, proxyVars, hookVars,
                   inbound, built, batchReq, batchResp, answer, sideVars>>

\* kfwproxy.go:334-350: the loop is over, the response is written
Nest_Write(b) ==
    /\ stack[b] # <<>>
    /\ LET f == stack[b][Len(stack[b])]
       IN /\ f.pc = "loop"
          /\ f.i > Len(f.xs)
          /\ Return(b, BatchWrite(f.st))
    /\ UNCHANGED <<now, calls, memVars, ristVars, concVars, proxyVars, hookVars,
                   inbound, built, batchReq, batchResp, sideVars>>

NestBatches == SeqsUpTo(NestItems, MaxNestItems)

NestNext ==
    \/ \E b \in BatchReqs, xs \in NestBatches : Nest_Arrive(b, xs, "1")
    \/ \E b \in BatchReqs : Nest_Check(b)
    \/ \E b \in BatchReqs, sub \in NestBatches : Nest_Item(b, sub)
    \/ \E b \in BatchReqs : Nest_Write(b)

SpecNest == RequestInit /\ [][NestNext]_vars

\* --------------------------------------------------- Version (telegram.go)
\* Strings are sequences of one-character strings.  Version and
\* MustExtractVersion of telegram.go are, statement for statement, version
\* and extractVersion of the earlier latest.go (src/unnamed/part_005).

IsDigit(c) == c \in {"0", "1", "2", "3", "4", "5", "6", "7", "8", "9"}

DigitVal(c) ==
    CASE c = "0" -> 0 [] c = "1" -> 1 [] c = "2" -> 2 [] c = "3" -> 3
      [] c = "4" -> 4 [] c = "5" -> 5 [] c = "6" -> 6 [] c = "7" -> 7
      [] c = "8" -> 8 [] c = "9" -> 9

\* math.MaxUint64 in decimal, the largest value ParseUint(s, 10, 64) accepts
MaxUint64Digits ==
    <<"1", "8", "4", "4", "6", "7", "4", "4", "0", "7",
      "3", "7", "0", "9", "5", "5", "1", "6", "1", "5">>

RECURSIVE TrimZeros(_)
\* a digit string without its leading zeros
TrimZeros(ds) ==
    IF ds # <<>> /\ Head(ds) = "0" THEN TrimZeros(Tail(ds)) ELSE ds

\* of two digit strings of the same length, the first is the greater number
DigitsGreater(ds, es) ==
    \E i \in DOMAIN ds :
        /\ \A j \in 1..(i - 1) : ds[j] = es[j]
        /\ DigitVal(ds[i]) > DigitVal(es[i])

\* strconv.ParseUint(s, 10, 64) returns ErrRange: the value needs more than
\* 64 bits
OutOfRange(ds) ==
    LET t == TrimZeros(ds)
    IN \/ Len(t) > Len(MaxUint64Digits)
       \/ Len(t) = Len(MaxUint64Digits) /\ DigitsGreater(t, MaxUint64Digits)

RECURSIVE DecimalValue(_, _)
\* the number a digit string denotes, most significant digit first
DecimalValue(ds, acc) ==
    IF ds = <<>> THEN acc
    ELSE DecimalValue(Tail(ds), acc * 10 + DigitVal(Head(ds)))

\* strconv.ParseUint(s, 10, 64): the value and whether err != nil; a syntax
\* error gives 0, a range error the largest value (not representable here,
\* and never used by a caller that checks err)
ParseUint(s) ==
    IF s = <<>> \/ \E i \in DOMAIN s : ~IsDigit(s[i])
    THEN [n |-> 0, err |-> TRUE, range |-> FALSE]
    ELSE IF OutOfRange(s) THEN [n |-> 0, err |-> TRUE, range |-> TRUE]
    ELSE [n |-> DecimalValue(s, 0), err |-> FALSE, range |-> FALSE]

RECURSIVE DigitsEnd(_, _)
\* [0-9]+ is greedy: the index after the run of digits that starts at i
DigitsEnd(str, i) ==
    IF i <= Len(str) /\ IsDigit(str[i]) THEN DigitsEnd(str, i + 1) ELSE i

\* versionRe anchored at i: <<>> when it does not match there, else the
\* match and its three submatches, the third empty when (?:\.([0-9]+))? took
\* nothing.  A shorter run of digits is never followed by the dot, so there
\* is nothing to backtrack to.
MatchAt(str, i) ==
    LET e1 == DigitsEnd(str, i)
        e2 == DigitsEnd(str, e1 + 1)
        e3 == DigitsEnd(str, e2 + 1)
        build == e2 <= Len(str) /\ str[e2] = "." /\ e3 > e2 + 1
    IN IF e1 = i \/ e1 > Len(str) \/ str[e1] # "." \/ e2 = e1 + 1
       THEN <<>>
       ELSE <<SubSeq(str, i, (IF build THEN e3 ELSE e2) - 1),
              SubSeq(str, i, e1 - 1),
              SubSeq(str, e1 + 1, e2 - 1),
              IF build THEN SubSeq(str, e2 + 1, e3 - 1) ELSE <<>> >>

RECURSIVE FindFrom(_, _)
\* the leftmost match from position i on; <<>> is nil
FindFrom(str, i) ==
    IF i > Len(str) THEN <<>>
    ELSE IF MatchAt(str, i) # <<>> THEN MatchAt(str, i)
    ELSE FindFrom(str, i + 1)

\* versionRe.FindStringSubmatch(str)
FindStringSubmatch(str) == FindFrom(str, 1)

\* telegram.go:109-122 (part_005:108-123): each submatch that is there and
\* not empty is parsed, and a parse error panics
MustExtractVersion(str) ==
    LET m == FindStringSubmatch(str)
        Part(i) == IF i + 1 <= Len(m) /\ m[i + 1] # <<>>
                   THEN ParseUint(m[i + 1])
                   ELSE [n |-> 0, err |-> FALSE, range |-> FALSE]
    IN IF \E i \in 1..3 : Part(i).err
       THEN [panic |-> TRUE, v |-> ZeroVersion]
       ELSE [panic |-> FALSE, v |-> <<Part(1).n, Part(2).n, Part(3).n>>]

\* a comparison that leaves the build number's equality out
Less_StrictBuild(v, w) ==
    ~(v[1] > w[1] \/ (v[1] = w[1] /\ (v[2] > w[2] \/
        (v[2] = w[2] /\ v[3] > w[3]))))

\* telegram.go:130-132 (part_005:129-131): Version.Less
Less(v, w) ==
    ~(v[1] > w[1] \/ (v[1] = w[1] /\ (v[2] > w[2] \/
        (v[2] = w[2] /\ (v[3] > w[3] \/ v[3] = w[3])))))

\* telegram.go:134-136: Version.Equal
Equal(v, w) == v[1] = w[1] /\ v[2] = w[2] /\ v[3] = w[3]

\* the characters of the short inputs, and the inputs: every string of up to
\* MaxStrLen of them, and two whose first number is math.MaxUint64 + 1
VersionChars == {"1", "2", ".", "a"}
Overflowing ==
    <<"1", "8", "4", "4", "6", "7", "4", "4", "0", "7",
      "3", "7", "0", "9", "5", "5", "1", "6", "1", "6">>
VersionStrings ==
    SeqsUpTo(VersionChars, MaxStrLen)
        \cup {Overflowing \o <<".", "1">>, <<"a">> \o Overflowing \o <<".", "1", ".", "2">>}
Versions == (0..MaxPart) \X (0..MaxPart) \X (0..MaxPart)

\* a call of MustExtractVersion; the functions are pure, and a run makes one
\* call
Extract(str) ==
    /\ verIn = NoVerIn
    /\ verIn' = [NoVerIn EXCEPT !.op = "MustExtractVersion", !.str = str]
    /\ verOut' = [NoVerOut EXCEPT !.panic = MustExtractVersion(str).panic,
                                  !.v = MustExtractVersion(str).v]
    /\ UNCHANGED <<now, calls, memVars, ristVars, concVars, proxyVars, hookVars>>
    /\ UNCHANGED <<inbound, built, batchReq, batchResp, nestVars, statVars,
                   latestVars>>

\* the calls a.Less(b), b.Less(a) and a.Equal(b)
Compare(a, b) ==
    /\ verIn = NoVerIn
    /\ verIn' = [NoVerIn EXCEPT !.op = "Less", !.a = a, !.b = b]
    /\ verOut' = [NoVerOut EXCEPT !.ab = Less(a, b), !.ba = Less(b, a),
                                  !.eq = Equal(a, b)]
    /\ UNCHANGED <<now, calls, memVars, ristVars, concVars, proxyVars, hookVars>>
    /\ UNCHANGED <<inbound, built, batchReq, batchResp, nestVars, statVars,
                   latestVars>>

VersionNext ==
    \/ \E str \in VersionStrings : Extract(str)
    \/ \E a \in Versions, b \in Versions : Compare(a, b)

SpecVersion == RequestInit /\ [][VersionNext]_vars

\* ------------------------------------- memoryCache.handleStats (cache.go)
\* handleStats takes no lock: it reads c.init, len(c.entries), c.size,
\* c.hits, c.misses and c.puts one after the other, in the order of the map
\* literal, while Put, Get and Clean calls of other goroutines, each under
\* c.mu, run in between.

\* the values handleStats reports, as the cache holds them
CacheState ==
    [len |-> Cardinality(DOMAIN entries), size |-> size, hits |-> hits,
     misses |-> misses, puts |-> puts]

\* the same of the state an operation leaves
CacheStateAfter ==
    [len |-> Cardinality(DOMAIN entries'), size |-> size', hits |-> hits',
     misses |-> misses', puts |-> puts']

\* the cache states passed while handleStats is reading
Passed ==
    seen' = IF stat.pc \in {"idle", "done"} THEN seen
            ELSE seen \cup {CacheStateAfter}

\* cache.go:231-236: the header, the encoder, and the reads of c.init
Stats_Begin ==
    /\ stat.pc = "idle"
    /\ stat' = [NoStat EXCEPT !.pc = "len"]
    /\ seen' = {CacheState}
    /\ UNCHANGED <<now, calls, memVars, ristVars, concVars, proxyVars, hookVars>>
    /\ UNCHANGED <<inbound, built, batchReq, batchResp, nestVars, latestVars,
                   versionVars>>

\* cache.go:237-241: the read of one field; after c.puts the map is encoded
Stats_Read ==
    /\ stat.pc \in {"len", "size", "hits", "misses", "puts"}
    /\ stat' =
         CASE stat.pc = "len" ->
                [stat EXCEPT !.len = Cardinality(DOMAIN entries), !.pc = "size"]
           [] stat.pc = "size" -> [stat EXCEPT !.size = size, !.pc = "hits"]
           [] stat.pc = "hits" -> [stat EXCEPT !.hits = hits, !.pc = "misses"]
           [] stat.pc = "misses" -> [stat EXCEPT !.misses = misses, !.pc = "puts"]
           [] stat.pc = "puts" -> [stat EXCEPT !.puts = puts, !.pc = "done"]
    /\ UNCHANGED <<now, calls, memVars, ristVars, concVars, proxyVars, hookVars>>
    /\ UNCHANGED <<inbound, built, batchReq, batchResp, nestVars, latestVars,
                   versionVars, seen>>

\* a Put of another goroutine, under c.mu.Lock()
Stats_Put(id, p, ttl) ==
    /\ calls < MaxStatCalls
    /\ calls' = calls + 1
    /\ memoryCache_Put(id, p[1], p[2], ttl)
    /\ Passed
    /\ UNCHANGED <<now, ristVars, concVars, proxyVars, hookVars>>
    /\ UNCHANGED <<inbound, built, batchReq, batchResp, nestVars, latestVars,
                   versionVars, stat>>

\* a Get of another goroutine, under c.mu.RLock()
Stats_Get(id) ==
    /\ calls < MaxStatCalls
    /\ calls' = calls + 1
    /\ memoryCache_Get(id)
    /\ Passed
    /\ UNCHANGED <<now, ristVars, concVars, proxyVars, hookVars>>
    /\ UNCHANGED <<inbound, built, batchReq, batchResp, nestVars, latestVars,
                   versionVars, stat>>

\* the sweep, under c.mu.Lock()
Stats_Clean ==
    /\ calls < MaxStatCalls
    /\ calls' = calls + 1
    /\ memoryCache_Clean
    /\ Passed
    /\ UNCHANGED <<now, ristVars, concVars, proxyVars, hookVars>>
    /\ UNCHANGED <<inbound, built, batchReq, batchResp, nestVars, latestVars,
                   versionVars, stat>>

StatsNext ==
    \/ Tick
    \/ Stats_Begin
    \/ Stats_Read
    \/ \E id \in ConcKeys, p \in ConcPayloads, ttl \in ConcTTLs : Stats_Put(id, p, ttl)
    \/ \E id \in ConcKeys : Stats_Get(id)
    \/ Stats_Clean

SpecStats == MemInit /\ [][StatsNext]_vars

\* ---------------------------------------------- LatestTracker (latest.go)
\* The UpgradeCheck Hook starts a goroutine per upstream response
\* (kfwproxy.go:197: go l.InterceptUpgradeCheck(buf)).  l.v and l.t are
\* atomic.Values: a Load and a Store are each one step, and the steps of the
\* other goroutines run between the Load and the Store of one call.

\* the response bodies: whether json.Unmarshal accepts them, and their
\* UpgradeURL and ReleaseNoteURL
LatestBodies ==
    {[ok |-> TRUE, up |-> <<"f", "1", ".", "2">>, notes |-> <<"n", "/", "1">>],
     [ok |-> TRUE, up |-> <<"f", "1", ".", "1", "2">>, notes |-> <<"n", "/", "2">>],
     [ok |-> TRUE, up |-> <<>>, notes |-> <<"n">>],
     [ok |-> TRUE, up |-> Overflowing \o <<".", "1">>, notes |-> <<>>],
     [ok |-> FALSE, up |-> <<>>, notes |-> <<>>]}

\* strings.LastIndex(u, "/"), counted from 1; 0 when there is none
LastIndex(u) ==
    LET at == {i \in DOMAIN u : u[i] = "/"}
    IN IF at = {} THEN 0 ELSE CHOOSE i \in at : \A j \in at : j <= i

\* latest.go:94-96: whether the body has a release-notes id, and the id
\* (ParseUint's error is dropped)
HasNotes(s) == s.ok /\ s.notes # <<>> /\ LastIndex(s.notes) # 0
NotesID(s) == ParseUint(SubSeq(s.notes, LastIndex(s.notes) + 1, Len(s.notes))).n

\* latest.go:84: cv.v.Less(v)
Newer(cv, v) == Less(cv, v)

\* latest.go:80-84: the body is unmarshalled, the version extracted (a panic
\* there, in a goroutine of its own, ends the process), l.v loaded and
\* compared
Intercept_Begin(g, s) ==
    /\ ~crashed
    /\ lgo[g].pc = "idle"
    /\ calls < MaxLatestCalls
    /\ calls' = calls + 1
    /\ IF s.ok /\ s.up # <<>> /\ MustExtractVersion(s.up).panic
       THEN /\ crashed' = TRUE
            /\ UNCHANGED <<lgo, lseen>>
       ELSE LET v == MustExtractVersion(s.up).v
            IN /\ crashed' = crashed
               /\ lseen' = [vs |-> lseen.vs \cup
                                     (IF s.ok /\ s.up # <<>> THEN {v} ELSE {}),
                            ts |-> lseen.ts \cup
                                     (IF HasNotes(s) THEN {NotesID(s)} ELSE {})]
               /\ lgo' = [lgo EXCEPT ![g] =
                            [pc |-> IF ~s.ok THEN "idle"
                                    ELSE IF s.up # <<>> /\ Newer(latest.v, v)
                                    THEN "storeV" ELSE "notes",
                             s |-> <<s>>, v |-> v, t |-> 0]]
    /\ UNCHANGED <<now, memVars, ristVars, concVars, proxyVars, hooks>>
    /\ UNCHANGED <<inbound, built, batchReq, batchResp, nestVars, statVars,
                   versionVars, latest>>

\* latest.go:90: l.v.Store(vS{v, u})
Intercept_StoreV(g) ==
    /\ ~crashed
    /\ lgo[g].pc = "storeV"
    /\ latest' = [latest EXCEPT !.v = lgo[g].v, !.vu = lgo[g].s[1].up]
    /\ lgo' = [lgo EXCEPT ![g].pc = "notes"]
    /\ UNCHANGED <<now, calls, memVars, ristVars, concVars, proxyVars, hookVars>>
    /\ UNCHANGED <<inbound, built, batchReq, batchResp, nestVars, statVars,
                   versionVars, lseen>>

\* latest.go:93-97: the id is parsed, l.t loaded and compared
Intercept_LoadT(g) ==
    /\ ~crashed
    /\ lgo[g].pc = "notes"
    /\ LET s == lgo[g].s[1]
       IN lgo' = [lgo EXCEPT ![g] =
                    IF HasNotes(s) /\ latest.t < NotesID(s)
                    THEN [@ EXCEPT !.pc = "storeT", !.t = NotesID(s)]
                    ELSE NoLgo]
    /\ UNCHANGED <<now, calls, memVars, ristVars, concVars, proxyVars, hookVars>>
    /\ UNCHANGED <<inbound, built, batchReq, batchResp, nestVars, statVars,
                   versionVars, latest, lseen>>

\* latest.go:103: l.t.Store(tS{t, u})
Intercept_StoreT(g) ==
    /\ ~crashed
    /\ lgo[g].pc = "storeT"
    /\ latest' = [latest EXCEPT !.t = lgo[g].t, !.tu = lgo[g].s[1].notes]
    /\ lgo' = [lgo EXCEPT ![g] = NoLgo]
    /\ UNCHANGED <<now, calls, memVars, ristVars, concVars, proxyVars, hookVars>>
    /\ UNCHANGED <<inbound, built, batchReq, batchResp, nestVars, statVars,
                   versionVars, lseen>>

LatestNext ==
    \/ \E g \in Procs, s \in LatestBodies : Intercept_Begin(g, s)
    \/ \E g \in Procs : Intercept_StoreV(g)
    \/ \E g \in Procs : Intercept_LoadT(g)
    \/ \E g \in Procs : Intercept_StoreT(g)

SpecLatest == RequestInit /\ [][LatestNext]_vars

\* ------------------------- batch sub-items through the handler chain (main)
\* One batch request whose sub-items the loop hands to the ProxyHandler of
\* the UpgradeCheck route, next to requests clients send to that route.  The
\* sub-paths x of the batch, and the prefix the loop puts before them
\* (api stands for the host name that starts every proxied path).
ApiPrefix == <<"/", "api", "/">>
SubPaths == {<<"u">>, <<"/", "u">>, <<"u", "1">>}
\* the recorder and request of the sub-item being served, and a request a
\* client sent
Recorder == "r1"
Direct == "r2"
TheBatch == "b1"

\* a prefix that is never taken off
TrimPrefix_Keep(s, c) == s

\* strings.TrimPrefix(s, c): s without one leading c
TrimPrefix(s, c) == IF s # <<>> /\ Head(s) = c THEN Tail(s) ELSE s

\* kfwproxy.go:299-304: http.NewRequestWithContext returns an error when
\* url.Parse rejects the path; of the characters here that is a % which no
\* two hex digits follow
NewRequest_Fails(x) == \E i \in DOMAIN x : x[i] = "%"

NoHeaders == [k \in HeaderNames |-> <<>>]

\* kfwproxy.go:296-299: the sub-request is a GET of the prefixed sub-path
\* with no header of the batch request
SubRequest(x) ==
    [method |-> "GET", path |-> ApiPrefix \o TrimPrefix(x, "/"),
     query |-> <<>>, hdr |-> NoHeaders]

\* the requests clients send to the route, with and without the preview header
DirectRequests ==
    {[method |-> m, path |-> ApiPrefix \o p, query |-> <<>>,
      hdr |-> [NoHeaders EXCEPT ![PreviewHeader] = pv]] :
       m \in {"GET"}, p \in {<<"u">>}, pv \in {<<>>, <<(<<"1">>)>>}}

\* kfwproxy.go:262-293: the batch request arrives, of a client (no batched
\* value in its context) and passing the checks; the loop starts
Pipe_Arrive(xs, hd) ==
    /\ ~crashed
    /\ stack[TheBatch] = <<>>
    /\ answer[TheBatch] = <<>>
    /\ Validate(xs, hd) = 0
    /\ stack' = [stack EXCEPT ![TheBatch] =
                    <<[Frame(FALSE, xs, hd) EXCEPT !.pc = "loop"]>>]
    /\ UNCHANGED <<now, calls, memVars, ristVars, concVars, proxyVars, hookVars>>
    /\ UNCHANGED <<inbound, built, batchReq, batchResp, answer, sideVars>>

\* kfwproxy.go:295-306: the next sub-item is handed to the handler chain,
\* hdl.ServeHTTP(rc, rq)
Pipe_Serve(parses) ==
    /\ ~crashed
    /\ stack[TheBatch] # <<>>
    /\ LET f == stack[TheBatch][1]
       IN /\ f.pc = "loop"
          /\ f.i <= Len(f.xs)
          /\ ~NewRequest_Fails(f.xs[f.i])
          /\ ServeHTTP(Recorder, "GET", CacheID(SubRequest(f.xs[f.i])), parses)
          /\ stack' = [stack EXCEPT ![TheBatch][1].pc = "serve"]
    /\ UNCHANGED <<inbound, built, batchReq, batchResp, answer, sideVars>>

\* rc.Body.String(): the bytes the recorder holds, as a string
Body_String(buf) == buf

\* kfwproxy.go:306-350: hdl.ServeHTTP has returned; the loop reads the
\* recorder's code, Cache-Control and body into the entry of the sub-item,
\* and after the last sub-item the response is written
Pipe_Record ==
    /\ ~crashed
    /\ stack[TheBatch] # <<>>
    /\ LET f == stack[TheBatch][1]
           rc == resp[Recorder]
           st == BatchItem(Recorded(rc.status, RespCC(rc), Body_String(rc.body)),
                           f.hd, f.st)
       IN /\ f.pc = "serve"
          /\ req[Recorder].pc = "idle"
          /\ rc.written
          /\ IF f.i < Len(f.xs)
             THEN /\ stack' = [stack EXCEPT ![TheBatch][1].st = st,
                                            ![TheBatch][1].i = f.i + 1,
                                            ![TheBatch][1].pc = "loop"]
                  /\ answer' = answer
             ELSE /\ stack' = [stack EXCEPT ![TheBatch] = <<>>]
                  /\ answer' = [answer EXCEPT ![TheBatch] =
                                   <<[xs |-> f.xs, resp |-> BatchWrite(st)]>>]
    /\ UNCHANGED <<now, calls, memVars, ristVars, concVars, proxyVars, hookVars>>
    /\ UNCHANGED <<inbound, built, batchReq, batchResp, sideVars>>

\* the batches served: one sub-path, one sub-path twice in two spellings,
\* and two sub-paths
PipeBatches ==
    {<<(<<"u">>)>>, <<(<<"u">>), (<<"/", "u">>)>>, <<(<<"u", "1">>), (<<"u">>)>>}

PipeNext ==
    \/ Tick
    \/ \E xs \in PipeBatches : Pipe_Arrive(xs, "1")
    \/ \E parses \in BOOLEAN : Pipe_Serve(parses)
    \/ Pipe_Record
    \/ \E rq \in DirectRequests : Serve_Begin(Direct, rq.method, CacheID(rq), TRUE)
    \/ \E r \in Reqs : Serve_UpstreamError(r)
    \/ \E r \in Reqs, status \in UpstreamStatuses, p \in UpstreamPayloads :
         Serve_UpstreamResponse(r, status, p[1], p[2])
    \/ Serve_Clean
    \/ Serve_ProcessItems
    \/ Serve_Cleanup

\* main gives every route the cache (kfwproxy.go:210) and the route its
\* cache time (line 198)
PipeInit ==
    /\ ProxyInit
    /\ cacheImpl # "none"
    /\ CacheTTL # 0

\* The goroutines the hook starts stay pending here: one that runs changes
\* nothing the loop or the handler reads, or ends the process.
SpecPipeline == PipeInit /\ [][PipeNext]_vars

\* the cost of the entries currently stored
StoredCost == SumLen(entries, DOMAIN entries)

TypeOK ==
    /\ now \in StartTime..MaxTime
    /\ calls \in 0..MaxCalls
    /\ DOMAIN entries \subseteq Keys

\* ------------------------------------------------------------------ claims

\* C1: after every completed Put or Clean the tracked size equals the sum of
\* the byte lengths of the entries currently stored.
C1_SizeEqualsStoredCost ==
    ret.op \in {"Put", "Clean"} => size = StoredCost

\* C2: in either cache a Get returns found only if the current time has not
\* passed the expiresAt of the entry it returns, whatever ttl the entry was
\* put with and whether or not a sweep has run.
C2_GetNeverServesExpired ==
    /\ (ret.op = "Get" /\ ret.ok) => ~After(now, ret.exp)
    /\ (rret.op = "Get" /\ rret.ok) => ~After(now, rret.exp)

\* what a Get that directly follows the accepted Put `put` must return
RoundTrip(put, get) ==
    /\ get.ok
    /\ get.buf = put.buf
    /\ get.extra = put.extra
    /\ get.ct = now
    /\ get.exp = get.ct + put.ttl
    /\ get.exp = put.exp

\* a Get of the key of the accepted Put (ttl > 0) that was the call before it
GetAfterPut(put, get) ==
    /\ put.op = "Put"
    /\ put.ok
    /\ put.ttl > 0
    /\ get.op = "Get"
    /\ get.id = put.id

C4_NonPositiveTtlRejected ==
    [][(calls' = calls + 1 /\ ret'.op = "Put" /\ ret'.ttl <= 0) =>
         /\ ~ret'.ok
         /\ entries' = entries
         /\ ~rret'.ok
         /\ rstore' = rstore
         /\ rsetBuf' = rsetBuf]_vars

\* C8: once all concurrent calls have completed, hits is the number of Get
\* calls that returned found and misses the number that returned not found.
C8_CountersMatchGets ==
    (\A g \in Procs : pc[g] = "idle") =>
        /\ hits = gets.found
        /\ misses = gets.notfound

\* C9: while the cost put stays within capacity, a Put returns the same
\* accepted flag and a Get the same found flag, data, content type,
\* createdAt and expiresAt from memoryCache and from RistrettoCache.
C9_CachesEquivalent ==
    (ret.op \in {"Put", "Get"} /\ size <= Limit) =>
        /\ rret.op = ret.op
        /\ rret.ok = ret.ok
        /\ ret.op = "Get" =>
              /\ rret.buf = ret.buf
              /\ rret.extra = ret.extra
              /\ rret.ct = ret.ct
              /\ rret.exp = ret.exp

\* C10: every GET/HEAD response that is served from the cache or has just
\* been stored carries max-age = expiresAt - now at response time, which is
\* neither negative nor larger than the ttl, and an Expires equal to the
\* entry's expiresAt (so a later hit on the same entry reports a smaller
\* max-age and the same Expires).
C10_MaxAgeIsRemainingLifetime ==
    \A r \in Reqs :
        (resp[r].written /\ resp[r].cacheControl = "max-age") =>
            /\ resp[r].expires[1] = "http-date"
            /\ resp[r].maxAge = resp[r].expires[2] - resp[r].at
            /\ resp[r].maxAge >= 0
            /\ resp[r].maxAge <= CacheTTL

\* C5: with Limit > 0, a Put whose data is longer than Limit returns
\* not-accepted and leaves the entry map, the size and the puts counter as
\* they were.
C5_RejectedPutFrame ==
    [][(ret'.op = "Put" /\ Limit > 0 /\ Len(ret'.buf) > Limit)
         => (/\ ~ret'.ok
             /\ entries' = entries
             /\ size' = size
             /\ puts' = puts)]_vars

\* a too-long Put under a key that holds an entry has been rejected
C5_Witness ==
    /\ ret.op = "Put"
    /\ Limit > 0
    /\ Len(ret.buf) > Limit
    /\ ret.id \in DOMAIN entries
    /\ puts > 0

\* C6: with Limit > 0, right after a Clean the cost of the stored entries is
\* at most Limit.
C6_CostWithinLimitAfterClean ==
    (ret.op = "Clean" /\ Limit > 0) => StoredCost <= Limit

\* a Clean has evicted for capacity and left entries behind
C6_Witness ==
    /\ ret.op = "Clean"
    /\ Limit > 0
    /\ DOMAIN ret.evicted # {}
    /\ DOMAIN entries # {}

\* C7: every unexpired entry a Clean evicts for capacity was created no
\* later than every entry that survives the Clean.
C7_EvictsOldestFirst ==
    ret.op = "Clean" =>
        \A e \in DOMAIN ret.evicted, s \in DOMAIN entries :
            ret.evicted[e].ct <= entries[s].ct

\* A, B, C were put in that order at three different times and the Clean
\* evicted A alone
C7_Witness ==
    /\ ret.op = "Clean"
    /\ DOMAIN ret.evicted = {"A"}
    /\ DOMAIN ret.expired = {}
    /\ DOMAIN entries = {"B", "C"}
    /\ ret.evicted["A"].ct < entries["B"].ct
    /\ entries["B"].ct < entries["C"].ct

\* ------------------------------------------------ claims on ProxyHandler
\* what the last call on the handler's cache returned
LastCall == IF cacheImpl = "memory" THEN ret ELSE rret

\* the step in which request r gets an upstream 200 and p.Cache.Put reports
\* the entry not stored
PutRejected(r) ==
    /\ req[r].pc = "upstream"
    /\ req'[r].pc = "idle"
    /\ req'[r].ustatus = 200
    /\ cacheImpl # "none"
    /\ LastCall'.op = "Put"
    /\ ~LastCall'.ok

\* the upstream status and body reach the client (no body on HEAD)
ServedFromUpstream(r) ==
    /\ resp'[r].written
    /\ resp'[r].status = req'[r].ustatus
    /\ resp'[r].body = IF req'[r].method = "HEAD" THEN <<>> ELSE req'[r].ubuf

CachedData ==
    {<<id, entries[id].buf>> : id \in DOMAIN entries}
    \cup {<<k, rstore[k].value.data>> : k \in DOMAIN rstore}
    \cup {<<rsetBuf[i].item.key, rsetBuf[i].item.value.data>> : i \in DOMAIN rsetBuf}

\* the step in which request r gets an upstream response
UpstreamAnswered(r) ==
    /\ req[r].pc = "upstream"
    /\ req'[r].pc = "idle"
    /\ ~req'[r].uerr

\* the marker of a response served from the cache
IsHitMarker(c) == \E t \in ZeroTime..MaxTime : Format(t) = c

\* C12: only upstream responses of status 200 are ever stored, so every
\* body the cache holds came with a 200 and every hit is served with status
\* 200; an upstream response of another status is passed through with its
\* status, Cache-Control: no-cache and the marker no, and no Put is made.
C12_OnlyOkStored ==
    [][/\ \A e \in CachedData' \ CachedData :
            \E r \in Reqs : /\ UpstreamAnswered(r)
                             /\ req'[r].ustatus = 200
                             /\ e = <<req'[r].id, req'[r].ubuf>>
       /\ \A r \in Reqs :
            (resp'[r].written /\ IsHitMarker(resp'[r].cached)) =>
                resp'[r].status = 200
       /\ \A r \in Reqs :
            (UpstreamAnswered(r) /\ req'[r].ustatus # 200) =>
                /\ ServedFromUpstream(r)
                /\ resp'[r].cacheControl = "no-cache"
                /\ resp'[r].cached = "no"
                /\ UNCHANGED <<entries, size, puts, rstore, rsetBuf>>]_vars

\* with a cache configured, one request stored its upstream 200 and an
\* upstream 404 was passed through to the other
C12_Witness ==
    /\ cacheImpl # "none"
    /\ \E r1, r2 \in Reqs :
          /\ req[r1].pc = "idle"
          /\ req[r1].ustatus = 200
          /\ <<req[r1].id, req[r1].ubuf>> \in CachedData
          /\ req[r2].pc = "idle"
          /\ req[r2].ustatus = 404
          /\ resp[r2].status = 404

\* C14: a failure of the hook, a panic of MustExtractVersion inside the
\* InterceptUpgradeCheck it started included, neither changes nor prevents
\* the response to any request: no request waiting for its upstream answer
\* is ever left behind by a failed hook.
C14_HookFailureContained ==
    \A r \in Reqs : req[r].pc = "upstream" => ~crashed

\* the requests i and j have the same URL and the same values of the
\* preview header
SameUrlAndPreview(i, j) ==
    /\ URL_String(inbound[i]) = URL_String(inbound[j])
    /\ inbound[i].hdr[PreviewHeader] = inbound[j].hdr[PreviewHeader]

\* C15: the cache key of the UpgradeCheck route is free of collisions: two
\* requests get the same key exactly when they have the same URL and the
\* same values of the X-Kobo-Accept-Preview header.
C15_KeyCollisionFree ==
    \A i, j \in DOMAIN built :
        built[i].key = built[j].key <=> SameUrlAndPreview(i, j)

\* the requests i and j have the same path, query and PassHeaders values
SameUpstreamInputs(i, j) ==
    /\ inbound[i].path = inbound[j].path
    /\ inbound[i].query = inbound[j].query
    /\ \A k \in PassHeaders : inbound[i].hdr[k] = inbound[j].hdr[k]

Began(r) ==
    /\ calls' = calls + 1
    /\ req[r].pc = "idle"
    /\ req'[r] # req[r] \/ resp'[r] # resp[r]
    /\ \A o \in Reqs \ {r} : req'[o] = req[o] /\ resp'[o] = resp[o]

\* the step in which request r is answered from the cache
HitAnswered(r) ==
    /\ Began(r)
    /\ req'[r].method \in {"GET", "HEAD"}
    /\ cacheImpl # "none"
    /\ LastCall'.op = "Get"
    /\ LastCall'.id = req'[r].id
    /\ LastCall'.ok

\* C18: a GET or HEAD answered from the cache or from upstream carries the
\* real status (200 on a hit, the upstream status otherwise); the HEAD
\* response has a zero-length body, the GET response has the full body and
\* a Content-Length equal to its length.
C18_HeadHasNoBody ==
    [][\A r \in Reqs :
         ((HitAnswered(r) \/ UpstreamAnswered(r)) /\ resp'[r].written) =>
           LET full == IF UpstreamAnswered(r) THEN req'[r].ubuf ELSE LastCall'.buf
               status == IF UpstreamAnswered(r) THEN req'[r].ustatus ELSE 200
           IN /\ resp'[r].status = status
              /\ IF req'[r].method = "HEAD"
                 THEN resp'[r].body = <<>>
                 ELSE /\ resp'[r].body = full
                      /\ resp'[r].contentLength = Len(full)]_vars

\* a HEAD was answered from upstream with 404 and no body, and a GET was
\* answered 200 with a body of two bytes or more
C18_Witness ==
    \E r1, r2 \in Reqs :
        /\ req[r1].pc = "idle" /\ req[r1].method = "HEAD"
        /\ req[r1].ustatus = 404 /\ resp[r1].status = 404
        /\ resp[r1].body = <<>> /\ req[r1].ubuf # <<>>
        /\ req[r2].pc = "idle" /\ req[r2].method = "GET"
        /\ resp[r2].written /\ resp[r2].status = 200
        /\ Len(resp[r2].body) >= 2
        /\ resp[r2].contentLength = Len(resp[r2].body)

\* ------------------------------------------------ claims on both handlers
\* the step in which request r learns that its upstream fetch failed
UpstreamFailed(r) ==
    /\ req[r].pc = "upstream"
    /\ req'[r].pc = "idle"
    /\ req'[r].uerr

\* C13: when the upstream fetch fails at the transport level the request is
\* answered 502, no Put is made (the cache's entries are as before), and
\* the fetch was attempted exactly once.
C13_TransportFailureIs502 ==
    [][\A r \in Reqs :
         UpstreamFailed(r) =>
           /\ resp'[r].written
           /\ resp'[r].status = 502
           /\ req'[r].fetches = 1
           /\ UNCHANGED <<entries, size, puts, rstore, rsetBuf>>]_vars

\* C17: OPTIONS is answered 200 with a zero-length body and the CORS
\* headers, any method other than GET, HEAD and OPTIONS is answered 405
\* with Allow: GET, HEAD, OPTIONS; in both cases no cache call is made
\* (counters unchanged), nothing is fetched upstream and no hook runs.
C17_OptionsAndOtherMethods ==
    [][\A r \in Reqs :
         (Began(r) /\ req'[r].method \notin {"GET", "HEAD"}) =>
           /\ resp'[r].written
           /\ IF req'[r].method = "OPTIONS"
              THEN /\ resp'[r].status = 200
                   /\ resp'[r].body = <<>>
                   /\ resp'[r].contentLength = 0
                   /\ resp'[r].cors
              ELSE /\ resp'[r].status = 405
                   /\ resp'[r].allow = "GET, HEAD, OPTIONS"
           /\ req'[r].pc = "idle"
           /\ req'[r].fetches = 0
           /\ resp'[r].hook = <<>>
           /\ UNCHANGED <<memVars, ristVars, hooks>>]_vars

\* ---------------------------------------------- claims on the batch handler
\* the batch was processed: its response is the JSON array of sub-results
BatchAnswered == batchResp # <<>> /\ batchResp[1].res # <<>>

\* C19: if the recorded status of any sub-item is not 200, a sub-path that
\* could not be turned into a request (recorded as 400) included, the batch
\* response carries Cache-Control: no-cache, Pragma: no-cache, Expires: 0.
C19_AnyFailureNoCache ==
    (BatchAnswered
     /\ \E i \in DOMAIN batchResp[1].res : batchResp[1].res[i].status # 200) =>
        /\ batchResp[1].cacheControl = "no-cache"
        /\ batchResp[1].pragma = "no-cache"
        /\ batchResp[1].expires = <<"0">>

\* the max-age values the sub-items of the batch request carry
ItemMaxAges ==
    UNION {{x.cc[j].value : j \in {k \in DOMAIN x.cc : x.cc[k].name = "max-age"}} :
             x \in {batchReq[1].xs[i] : i \in DOMAIN batchReq[1].xs}}

\* the least element of a set of integers
Min(S) == CHOOSE m \in S : \A o \in S : m <= o

\* C20: when every sub-item is 200, the batch is non-cacheable if any
\* item's max-age is <= 0, and otherwise its max-age is the minimum of the
\* default ttl and every item's max-age, whatever the order of the items.
C20_MinOfMaxAges ==
    (BatchAnswered
     /\ \A i \in DOMAIN batchResp[1].res : batchResp[1].res[i].status = 200) =>
        IF \E a \in ItemMaxAges : a <= 0
        THEN batchResp[1].cacheControl = "no-cache"
        ELSE /\ batchResp[1].cacheControl = "max-age"
             /\ batchResp[1].maxAge = Min(ItemMaxAges \cup {DefaultTTL})

\* three 200 items with max-age 5, 2, 5 under a default of 3 gave max-age 2
C20_Witness ==
    /\ BatchAnswered
    /\ Len(batchReq[1].xs) = 3
    /\ \A i \in 1..3 : batchResp[1].res[i].status = 200
    /\ batchReq[1].xs[1].cc = <<MaxAgeDirective(5)>>
    /\ batchReq[1].xs[2].cc = <<MaxAgeDirective(2)>>
    /\ batchReq[1].xs[3].cc = <<MaxAgeDirective(5)>>
    /\ batchResp[1].maxAge = 2

\* C21: a batch without sub-paths is answered 400 and one with more than 20
\* is answered 403, and in both cases nothing is dispatched.
C21_EmptyOrTooManyRejected ==
    batchResp # <<>> =>
        /\ Len(batchReq[1].xs) = 0 =>
              batchResp[1].status = 400 /\ batchResp[1].dispatched = 0
        /\ Len(batchReq[1].xs) > 20 =>
              batchResp[1].status = 403 /\ batchResp[1].dispatched = 0

\* a batch of 21 sub-paths that would each have been dispatched was refused
C21_Witness ==
    /\ batchResp # <<>>
    /\ Len(batchReq[1].xs) = 21
    /\ ~batchReq[1].xs[1].malformed
    /\ batchResp[1].status = 403

\* C22 as stated: a batch whose h is neither unset nor 1 is answered 400
\* with nothing dispatched, and the entries of an answered batch carry
\* headers exactly when h is 1.
C22_FlagChecked ==
    batchResp # <<>> =>
        /\ batchReq[1].h \notin {"", "1"} =>
              batchResp[1].status = 400 /\ batchResp[1].dispatched = 0
        /\ batchResp[1].status = 200 =>
              \A i \in DOMAIN batchResp[1].res :
                  batchResp[1].res[i].header # {} <=> batchReq[1].h = "1"

\* C22 amended: a batch whose h is neither unset nor 1 is refused with
\* nothing dispatched, with 400 unless it has more than 20 sub-paths (then
\* the 403 of the length check comes first); in an answered batch the entry
\* of a dispatched sub-path carries headers exactly when h is 1, and the
\* entry of a malformed sub-path never does.
C22_FlagCheckedAfterLength ==
    batchResp # <<>> =>
        /\ batchReq[1].h \notin {"", "1"} =>
              /\ batchResp[1].status = IF Len(batchReq[1].xs) > 20 THEN 403 ELSE 400
              /\ batchResp[1].dispatched = 0
        /\ batchResp[1].status = 200 =>
              \A i \in DOMAIN batchResp[1].res :
                  batchResp[1].res[i].header # {} <=>
                      (batchReq[1].h = "1" /\ ~batchReq[1].xs[i].malformed)

\* a batch with h = 1 of a malformed and a dispatched sub-path was answered
C22_Witness ==
    /\ batchResp # <<>>
    /\ batchReq[1].h = "1"
    /\ Len(batchReq[1].xs) = 2
    /\ batchReq[1].xs[1].malformed
    /\ ~batchReq[1].xs[2].malformed
    /\ batchResp[1].status = 200
    /\ batchResp[1].res[2].header # {}

WellFormed(xs) == SelectSeq(xs, LAMBDA x : ~x.malformed)

\* the entries recorded for the sub-paths that could be turned into a request
DispatchedEntries ==
    LET xs == batchReq[1].xs
        res == batchResp[1].res
        RECURSIVE Pick(_)
        Pick(i) == IF i > Len(xs) THEN <<>>
                   ELSE (IF xs[i].malformed THEN <<>> ELSE <<res[i]>>) \o Pick(i + 1)
    IN Pick(1)

\* C24: a batch that passes validation is answered 200 with one entry per
\* sub-path, in submission order; a malformed sub-path gives 400 in its own
\* entry and is not dispatched, and the other entries are those of the same
\* batch without the malformed sub-paths.
C24_MalformedItemOnly ==
    (batchResp # <<>> /\ Validate(batchReq[1].xs, batchReq[1].h) = 0) =>
        LET xs == batchReq[1].xs
            res == batchResp[1].res
            without == BatchLoop(WellFormed(xs), batchReq[1].h, BatchStart)
        IN /\ batchResp[1].status = 200
           /\ Len(res) = Len(xs)
           /\ \A i \in DOMAIN xs :
                 IF xs[i].malformed
                 THEN res[i].status = 400
                 ELSE res[i].status = xs[i].code /\ res[i].body = xs[i].body
           /\ DispatchedEntries = without.res
           /\ batchResp[1].dispatched = without.dispatched

\* a batch of a 200 sub-path, a malformed one and a 404 one was answered
C24_Witness ==
    /\ batchResp # <<>>
    /\ Len(batchReq[1].xs) = 3
    /\ batchReq[1].xs[1] = Recorded(200, <<MaxAgeDirective(2)>>, "json")
    /\ batchReq[1].xs[2].malformed
    /\ batchReq[1].xs[3] = Recorded(404, <<NoCacheDirective>>, "not found")
    /\ batchResp[1].status = 200
    /\ Len(batchResp[1].res) = 3
    /\ batchResp[1].res[2].status = 400
    /\ batchResp[1].res[3].body = "not found"

\* a is before b in the lexicographic order of (major, minor, build)
LexLess(a, b) ==
    \/ a[1] < b[1]
    \/ a[1] = b[1] /\ a[2] < b[2]
    \/ a[1] = b[1] /\ a[2] = b[2] /\ a[3] < b[3]

\* C28: a.Less(b) holds exactly when a is lexicographically smaller than b;
\* it is false for a = a, never holds both ways, and holds one way for any
\* two different versions; a.Equal(b) holds exactly for equal triples.
C28_LessIsStrictLex ==
    verIn.op = "Less" =>
        /\ verOut.ab <=> LexLess(verIn.a, verIn.b)
        /\ verIn.a = verIn.b => ~verOut.ab
        /\ ~(verOut.ab /\ verOut.ba)
        /\ verIn.a # verIn.b => (verOut.ab \/ verOut.ba)
        /\ verOut.eq <=> verIn.a = verIn.b

\* 1.2.0 was compared with 1.2.1, which differ in the build number only
C28_Witness ==
    /\ verIn.op = "Less"
    /\ verIn.a = <<1, 2, 0>>
    /\ verIn.b = <<1, 2, 1>>
    /\ verOut.ab
    /\ ~verOut.ba

\* the index of the last digit of the run of digits that starts at i
\* (i - 1 when str[i] is not a digit)
RunEnd(str, i) ==
    CHOOSE j \in (i - 1)..Len(str) :
        /\ \A k \in i..j : IsDigit(str[k])
        /\ j = Len(str) \/ ~IsDigit(str[j + 1])

\* the positions where a number, a dot and a number begin
GroupStarts(str) ==
    {i \in DOMAIN str :
        LET e == RunEnd(str, i)
        IN e >= i /\ e + 2 <= Len(str) /\ str[e + 1] = "." /\ IsDigit(str[e + 2])}

\* the digits of major, minor and build of the first major.minor[.build]
\* group of the string, build empty when the group has none
FirstGroup(str) ==
    LET i == Min(GroupStarts(str))
        e1 == RunEnd(str, i)
        e2 == RunEnd(str, e1 + 2)
        e3 == RunEnd(str, e2 + 2)
        build == e2 + 2 <= Len(str) /\ str[e2 + 1] = "." /\ e3 >= e2 + 2
    IN <<SubSeq(str, i, e1), SubSeq(str, e1 + 2, e2),
         IF build THEN SubSeq(str, e2 + 2, e3) ELSE <<>> >>

\* C29: MustExtractVersion (extractVersion) returns the numbers of the first
\* major.minor[.build] group of the string whatever surrounds it, 0.0.0
\* when the string has no such group, build 0 when the group has no build.
C29_ExtractsFirstGroup ==
    verIn.op = "MustExtractVersion" =>
        /\ ~verOut.panic
        /\ verOut.v =
              IF GroupStarts(verIn.str) = {} THEN ZeroVersion
              ELSE [k \in 1..3 |-> DecimalValue(FirstGroup(verIn.str)[k], 0)]

\* C29, where every number of the first group fits 64 bits: the same, and a
\* group with a number that does not fit makes the call panic.
C29_ExtractsFirstGroupInRange ==
    verIn.op = "MustExtractVersion" =>
        IF GroupStarts(verIn.str) # {}
           /\ \E k \in 1..3 : OutOfRange(FirstGroup(verIn.str)[k])
        THEN verOut.panic
        ELSE /\ ~verOut.panic
             /\ verOut.v =
                   IF GroupStarts(verIn.str) = {} THEN ZeroVersion
                   ELSE [k \in 1..3 |-> DecimalValue(FirstGroup(verIn.str)[k], 0)]

\* C25: the entry count, size and counters handleStats reports are those of
\* one state the cache was in while the call ran.
C25_StatsSnapshot ==
    stat.pc = "done" =>
        [len |-> stat.len, size |-> stat.size, hits |-> stat.hits,
         misses |-> stat.misses, puts |-> stat.puts] \in seen

\* the greatest of a set of versions, 0.0.0 for none
MaxVersion(S) ==
    CHOOSE m \in S \cup {ZeroVersion} : \A o \in S \cup {ZeroVersion} : ~Less(m, o)

\* the greatest of a set of release-notes ids, 0 for none
MaxID(S) == CHOOSE m \in S \cup {0} : \A o \in S \cup {0} : o <= m

\* C26: no step of concurrent InterceptUpgradeCheck calls makes the stored
\* version or the stored release-notes id smaller, and when all calls have
\* completed the stored values are the greatest of those intercepted.
C26_StoredNeverDecreases ==
    [][/\ ~Less(latest'.v, latest.v)
       /\ latest'.t >= latest.t
       /\ (~crashed' /\ \A g \in Procs : lgo'[g].pc = "idle") =>
             /\ latest'.v = MaxVersion(lseen'.vs)
             /\ latest'.t = MaxID(lseen'.ts)]_vars

\* the handler of r stored the upstream response in this step
StoredNow(r) ==
    /\ req[r].pc = "upstream"
    /\ req'[r].pc = "idle"
    /\ req'[r].ustatus = 200
    /\ cacheImpl # "none"
    /\ LastCall'.op = "Put"
    /\ LastCall'.ok

\* C27: with CacheTTL left at zero, a 200 upstream response is stored with a
\* ttl of one hour and answered with a max-age of 3600 seconds.
C27_UnsetTtlIsOneHour ==
    [][\A r \in Reqs :
         (CacheTTL = 0 /\ StoredNow(r)) =>
           /\ LastCall'.ttl = OneHour
           /\ LastCall'.exp = now + OneHour
           /\ resp'[r].cacheControl = "max-age"
           /\ resp'[r].maxAge = OneHour]_vars

\* C30: no GET or HEAD request ends in the panic "cached, but no expiry!?!":
\* whenever the cache marker of a response is not "no" (a hit, "new" or
\* "nospace"), the expiry behind its Expires and max-age is not the zero
\* time, with either cache and either ttl.
C30_ExpiryNeverZero ==
    \A r \in Reqs :
        /\ ~resp[r].panic
        /\ (resp[r].written
            /\ (resp[r].cached = "new" \/ resp[r].cached = "nospace"
                  \/ IsHitMarker(resp[r].cached))) =>
              /\ resp[r].cacheControl = "max-age"
              /\ resp[r].expires # <<>>
              /\ resp[r].expires # Format(ZeroTime)

\* with ttl 0, one response was stored and one could not be, and both carry
\* an expiry
C30_Witness ==
    \E r \in Reqs, q \in Reqs :
        /\ CacheTTL = 0
        /\ resp[r].written /\ resp[r].cached = "new"
        /\ resp[q].written /\ resp[q].cached = "nospace"
        /\ resp[r].expires # <<>>
        /\ resp[q].expires # <<>>

\* the cost of the entries a Clean evicted for capacity
EvictedCost == SumLen(ret.evicted, DOMAIN ret.evicted)

\* C31: a Clean evicts unexpired entries only while the cost of the stored
\* entries exceeds Limit: none when the entries left after expiry fit, and
\* the last one evicted was evicted from a set that did not fit.
C31_EvictsOnlyWhileOverLimit ==
    ret.op = "Clean" =>
        /\ (Limit = 0 \/ StoredCost + EvictedCost <= Limit) =>
              DOMAIN ret.evicted = {}
        /\ DOMAIN ret.evicted # {} =>
              \E e \in DOMAIN ret.evicted :
                  StoredCost + Len(ret.evicted[e].buf) > Limit

\* C32: right after a Clean no stored entry has an expiresAt earlier than
\* the time of the Clean, the entries removed as expired are those whose
\* expiresAt had passed, and the tracked size has gone down by the byte
\* length of every entry removed.
C32_CleanRemovesExpired ==
    [][(calls' = calls + 1 /\ ret'.op = "Clean") =>
         /\ \A id \in DOMAIN entries' : entries'[id].exp >= now
         /\ DOMAIN ret'.expired = {id \in DOMAIN entries : entries[id].exp < now}
         /\ \A id \in DOMAIN ret'.expired : ret'.expired[id] = entries[id]
         /\ size' = size - SumLen(ret'.expired, DOMAIN ret'.expired)
                         - SumLen(ret'.evicted, DOMAIN ret'.evicted)]_vars

\* a Clean has removed an expired entry and kept an unexpired one
C32_Witness ==
    /\ ret.op = "Clean"
    /\ DOMAIN ret.expired # {}
    /\ DOMAIN ret.evicted = {}
    /\ DOMAIN entries # {}

\* C33: the tracked size is never negative.
C33_SizeNeverNegative == size >= 0

\* a Clean has removed an expired entry and evicted another, and two bytes
\* are left
C33_Witness ==
    /\ ret.op = "Clean"
    /\ DOMAIN ret.expired # {}
    /\ DOMAIN ret.evicted # {}
    /\ size = 2

\* both requests missed on the same key, fetched, stored their upstream 200
\* in the memoryCache and were answered at the same instant (so the second
\* looked the key up before the first had stored it), and the later Put was
\* the last cache call
BothMissedSameKey ==
    /\ cacheImpl = "memory"
    /\ \A r \in Reqs :
          /\ req[r].pc = "idle"
          /\ req[r].ustatus = 200
          /\ resp[r].written
          /\ resp[r].cached = "new"
    /\ req["r1"].id = req["r2"].id
    /\ resp["r1"].at = resp["r2"].at
    /\ ret.op = "Put"
    /\ ret.ok

\* C34: after two concurrent misses on one key, both requests have been
\* answered with the body they fetched, and the cache holds one entry for
\* the key, with the later Put's data, createdAt and expiresAt, counted once
\* in the tracked size.
C34_ConcurrentMissesOneEntry ==
    BothMissedSameKey =>
        /\ \A r \in Reqs :
              resp[r].body = IF req[r].method = "HEAD" THEN <<>> ELSE req[r].ubuf
        /\ DOMAIN entries = {ret.id}
        /\ entries[ret.id].buf = ret.buf
        /\ entries[ret.id].ct = ret.ct
        /\ entries[ret.id].exp = ret.exp
        /\ size = Len(entries[ret.id].buf)

\* the step in which request r, a GET or HEAD, misses in the cache
MissBegan(r) ==
    /\ Began(r)
    /\ req'[r].method \in {"GET", "HEAD"}
    /\ cacheImpl # "none"
    /\ LastCall'.op = "Get"
    /\ LastCall'.id = req'[r].id
    /\ ~LastCall'.ok

\* what holds of a hit and of the answer to the one upstream request: a hit
\* fetches nothing and stores nothing; an upstream answer is the answer to
\* the only fetch, and is followed by a Put, under the key that was probed,
\* exactly when its status is 200
HitAndAnswerSteps(r) ==
    /\ HitAnswered(r) =>
          /\ req'[r].pc = "idle"
          /\ req'[r].fetches = 0
          /\ UNCHANGED <<entries, size, puts, rstore, rsetBuf>>
    /\ (UpstreamAnswered(r) /\ cacheImpl # "none") =>
          /\ req'[r].fetches = 1
          /\ IF req'[r].ustatus = 200
             THEN /\ LastCall'.op = "Put"
                  /\ LastCall'.id = req[r].id
                  /\ LastCall'.buf = req'[r].ubuf
             ELSE UNCHANGED <<entries, size, puts, rstore, rsetBuf>>
    /\ UpstreamFailed(r) =>
          /\ req'[r].fetches = 1
          /\ UNCHANGED <<entries, size, puts, rstore, rsetBuf>>

\* C35 as stated: on a hit no upstream request is issued and no Put is
\* made; on a miss exactly one upstream request is issued, and a Put follows
\* only if it returned 200, under the key that was probed.
C35_OneFetchPerMiss ==
    [][\A r \in Reqs :
         /\ HitAndAnswerSteps(r)
         /\ MissBegan(r) => req'[r].pc = "upstream" /\ req'[r].fetches = 1]_vars

\* C35 (amended): the same, except that a miss whose upstream URL cannot be
\* built from the path issues no upstream request: it is answered 502 at
\* once and nothing is stored.
C35_AtMostOneFetchPerMiss ==
    [][\A r \in Reqs :
         /\ HitAndAnswerSteps(r)
         /\ MissBegan(r) =>
               IF req'[r].pc = "upstream"
               THEN req'[r].fetches = 1
               ELSE /\ req'[r].fetches = 0
                    /\ resp'[r].written
                    /\ resp'[r].status = 502
                    /\ UNCHANGED <<entries, size, puts, rstore, rsetBuf>>]_vars

\* one request fetched once and stored its 200, and the other was then
\* answered from the cache without a fetch
C35_Witness ==
    \E r \in Reqs, q \in Reqs :
        /\ resp[r].written /\ resp[r].cached = "new" /\ req[r].fetches = 1
        /\ resp[q].written /\ IsHitMarker(resp[q].cached) /\ req[q].fetches = 0
        /\ req[q].id = req[r].id

\* the creation time of the entry the configured cache holds under id
StoredCt(id) ==
    IF cacheImpl = "memory" THEN entries[id].ct ELSE rstore[id].value.ct

\* the data of the entry the configured cache holds under id
StoredData(id) ==
    IF cacheImpl = "memory" THEN entries[id].buf ELSE rstore[id].value.data

\* q has the `new` response of the Put that stored the entry under id: the
\* entry was created when q was answered and holds what q fetched
StoredBy(q, id) ==
    /\ resp[q].written
    /\ resp[q].cached = "new"
    /\ req[q].id = id
    /\ StoredCt(id) = resp[q].at
    /\ StoredData(id) = req[q].ubuf

\* C36: a request answered from the cache gets status 200, the entry's
\* creation time as marker, and the body, the kept header (Content-Type)
\* and the Expires of the `new` response that stored the entry.
C36_HitReservesStored ==
    [][\A r \in Reqs :
         HitAnswered(r) =>
           /\ resp'[r].written
           /\ resp'[r].status = 200
           /\ resp'[r].cached = Format(StoredCt(req'[r].id))
           /\ \A q \in Reqs \ {r} :
                 StoredBy(q, req'[r].id) =>
                   /\ resp'[r].cached = Format(resp[q].at)
                   /\ resp'[r].contentType = resp[q].contentType
                   /\ resp'[r].expires = resp[q].expires
                   /\ resp'[r].body =
                         IF req'[r].method = "HEAD" THEN <<>> ELSE req[q].ubuf]_vars

\* a GET was answered from the entry another request had stored a second
\* before, with that response's Expires
C36_Witness ==
    \E r \in Reqs, q \in Reqs :
        /\ CacheTTL = 1
        /\ resp[q].written /\ resp[q].cached = "new"
        /\ resp[r].written /\ IsHitMarker(resp[r].cached)
        /\ req[r].method = "GET"
        /\ req[r].id = req[q].id
        /\ resp[r].at = resp[q].at + 1
        /\ resp[r].expires = resp[q].expires
        /\ resp[r].body = req[q].ubuf

\* C37: a request waiting for its upstream call is answered once the call
\* returns, whatever the other requests and the cache calls do meanwhile.
C37_EveryRequestAnswered ==
    \A r \in Reqs :
        (req[r].pc = "upstream") ~> (req[r].pc = "idle" /\ resp[r].written)

\* C39: a GET or HEAD answered from the cache or from upstream, whatever
\* the status, has had the hook invoked once, with the bytes of the stored
\* or fetched body, and one goroutine of the hook started; a request that
\* ends as OPTIONS, 405 or 502 has had no hook invocation.
C39_HookOncePerAnswer ==
    [][\A r \in Reqs :
         /\ (HitAnswered(r) \/ UpstreamAnswered(r)) =>
               LET buf == IF UpstreamAnswered(r) THEN req'[r].ubuf ELSE LastCall'.buf
               IN /\ resp'[r].hook = <<buf>>
                  /\ hooks' = hooks (+) SetToBag({buf})
         /\ ((Began(r) \/ UpstreamFailed(r)) /\ req'[r].pc = "idle"
             /\ ~HitAnswered(r)) =>
               /\ resp'[r].status \in {200, 405, 502}
               /\ resp'[r].status = 200 => req'[r].method = "OPTIONS"
               /\ resp'[r].hook = <<>>
               /\ hooks' = hooks]_vars

\* a HEAD answered with upstream's 404 had the hook invoked with the body
\* fetched, and a request answered 502 had not
C39_Witness ==
    \E r \in Reqs, q \in Reqs :
        /\ req[r].method = "HEAD"
        /\ resp[r].written /\ resp[r].status = 404
        /\ resp[r].hook = <<req[r].ubuf>>
        /\ resp[q].written /\ resp[q].status = 502
        /\ resp[q].hook = <<>>

\* the step in which the loop hands its next sub-item to the handler chain,
\* the sub-item, and the step in which the loop records the outcome
Dispatched ==
    /\ stack[TheBatch] # <<>>
    /\ stack[TheBatch][1].pc = "loop"
    /\ stack'[TheBatch] # <<>>
    /\ stack'[TheBatch][1].pc = "serve"

Item == stack[TheBatch][1].xs[stack[TheBatch][1].i]

RecordedStep ==
    /\ stack[TheBatch] # <<>>
    /\ stack[TheBatch][1].pc = "serve"
    /\ stack'[TheBatch] = <<>> \/ stack'[TheBatch][1].pc = "loop"

\* the entries recorded after a step
ResAfter ==
    IF stack'[TheBatch] # <<>> THEN stack'[TheBatch][1].st.res
    ELSE answer'[TheBatch][1].resp.res

\* a GET of /api.kobobooks.com/x that carries no header, for a sub-path x
\* given with or without its leading slash
DirectGet(x) ==
    [method |-> "GET",
     path |-> ApiPrefix \o (IF Head(x) = "/" THEN SubSeq(x, 2, Len(x)) ELSE x),
     query |-> <<>>, hdr |-> [k \in HeaderNames |-> <<>>]]

\* the sub-item step is a step of the handler on the direct request, and
\* the entry recorded is the status and body the handler wrote
SameSteps ==
    /\ Dispatched =>
          \E parses \in BOOLEAN :
             ServeHTTP(Recorder, "GET", CacheID(DirectGet(Item)), parses)
    /\ RecordedStep =>
          LET e == ResAfter[Len(ResAfter)]
          IN /\ Len(ResAfter) = stack[TheBatch][1].i
             /\ e.status = resp[Recorder].status
             /\ e.body = resp[Recorder].body

\* the last sub-item served missed, got a 200 from upstream and stored it
\* under key id, and the entry's lifetime has not passed
SubItemStored(id) ==
    /\ resp[Recorder].written
    /\ resp[Recorder].cached = "new"
    /\ req[Recorder].id = id
    /\ req[Recorder].ustatus = 200
    /\ now <= resp[Recorder].at + CacheTTL

\* the cache holds, unexpired, the entry that sub-item stored under id
HeldFrom(q, id) ==
    IF cacheImpl = "memory"
    THEN /\ id \in DOMAIN entries
         /\ entries[id].ct = resp[q].at
         /\ entries[id].buf = req[q].ubuf
         /\ ~After(now, entries[id].exp)
    ELSE /\ id \in DOMAIN rstore
         /\ rstore[id].value.ct = resp[q].at
         /\ rstore[id].value.data = req[q].ubuf
         /\ ristretto_Get_ok(id)

\* a repeat of the sub-path served last
Repeat ==
    /\ stack[TheBatch][1].i > 1
    /\ CacheID(SubRequest(Item)) =
          CacheID(SubRequest(stack[TheBatch][1].xs[stack[TheBatch][1].i - 1]))

====
